---- MODULE Spec2Model ----
(***************************************************************************)
(* md2pdf: the colour model (color_utils.py), the theme validators and the *)
(* interactive theme wizard (theme_builder.py), and the themes directory   *)
(* they share (theme_manager.py).                                          *)
(*                                                                         *)
(* Text is a sequence of one-character strings, so that strip(), lower(),  *)
(* the hex grammar and the f-string formatting are computed, not assumed.  *)
(***************************************************************************)
EXTENDS Integers, Sequences, FiniteSets, TLC

(***************************************************************************)
(* str methods used by the code                                            *)
(***************************************************************************)
Whitespace == {" ", "\t"}

UpperLetters == <<"A", "B", "C", "D", "E", "F", "G", "H", "I", "J", "K", "L", "M",
                  "N", "O", "P", "Q", "R", "S", "T", "U", "V", "W", "X", "Y", "Z">>

LowerLetters == <<"a", "b", "c", "d", "e", "f", "g", "h", "i", "j", "k", "l", "m",
                  "n", "o", "p", "q", "r", "s", "t", "u", "v", "w", "x", "y", "z">>

Digits == <<"0", "1", "2", "3", "4", "5", "6", "7", "8", "9">>

HexDigits == <<"0", "1", "2", "3", "4", "5", "6", "7", "8", "9",
               "a", "b", "c", "d", "e", "f">>

\* Letters outside ASCII for which str.isalnum() is also true.
NonAsciiLetters == {"é", "ü", "ñ"}

Range(s) == {s[i] : i \in DOMAIN s}

IndexOf(s, c) == CHOOSE i \in DOMAIN s : s[i] = c

Tail2(s) == SubSeq(s, 2, Len(s))

Front(s) == SubSeq(s, 1, Len(s) - 1)

RECURSIVE lstrip(_, _)
lstrip(s, chars) ==
    IF s # <<>> /\ s[1] \in chars THEN lstrip(Tail2(s), chars) ELSE s

RECURSIVE rstrip(_, _)
rstrip(s, chars) ==
    IF s # <<>> /\ s[Len(s)] \in chars THEN rstrip(Front(s), chars) ELSE s

strip(s) == rstrip(lstrip(s, Whitespace), Whitespace)

lower(s) ==
    [i \in DOMAIN s |->
        IF s[i] \in Range(UpperLetters)
        THEN LowerLetters[IndexOf(UpperLetters, s[i])]
        ELSE s[i]]

startswith(s, p) == Len(s) >= Len(p) /\ SubSeq(s, 1, Len(p)) = p

endswith(s, p) == Len(s) >= Len(p) /\ SubSeq(s, Len(s) - Len(p) + 1, Len(s)) = p

isalnum(c) ==
    \/ c \in Range(UpperLetters)
    \/ c \in Range(LowerLetters)
    \/ c \in Range(Digits)
    \/ c \in NonAsciiLetters

(***************************************************************************)
(* color_utils.py                                                          *)
(***************************************************************************)
CSS_NAMED_COLORS ==
    { <<<<"w", "h", "i", "t", "e">>, <<"#", "f", "f", "f", "f", "f", "f">>>>,
      <<<<"b", "l", "a", "c", "k">>, <<"#", "0", "0", "0", "0", "0", "0">>>>,
      <<<<"r", "e", "d">>, <<"#", "f", "f", "0", "0", "0", "0">>>>,
      <<<<"g", "r", "e", "e", "n">>, <<"#", "0", "0", "8", "0", "0", "0">>>>,
      <<<<"b", "l", "u", "e">>, <<"#", "0", "0", "0", "0", "f", "f">>>>,
      <<<<"y", "e", "l", "l", "o", "w">>, <<"#", "f", "f", "f", "f", "0", "0">>>>,
      <<<<"c", "y", "a", "n">>, <<"#", "0", "0", "f", "f", "f", "f">>>>,
      <<<<"m", "a", "g", "e", "n", "t", "a">>, <<"#", "f", "f", "0", "0", "f", "f">>>>,
      <<<<"g", "r", "a", "y">>, <<"#", "8", "0", "8", "0", "8", "0">>>>,
      <<<<"g", "r", "e", "y">>, <<"#", "8", "0", "8", "0", "8", "0">>>>,
      <<<<"s", "i", "l", "v", "e", "r">>, <<"#", "c", "0", "c", "0", "c", "0">>>>,
      <<<<"m", "a", "r", "o", "o", "n">>, <<"#", "8", "0", "0", "0", "0", "0">>>>,
      <<<<"o", "l", "i", "v", "e">>, <<"#", "8", "0", "8", "0", "0", "0">>>>,
      <<<<"l", "i", "m", "e">>, <<"#", "0", "0", "f", "f", "0", "0">>>>,
      <<<<"a", "q", "u", "a">>, <<"#", "0", "0", "f", "f", "f", "f">>>>,
      <<<<"t", "e", "a", "l">>, <<"#", "0", "0", "8", "0", "8", "0">>>>,
      <<<<"n", "a", "v", "y">>, <<"#", "0", "0", "0", "0", "8", "0">>>>,
      <<<<"f", "u", "c", "h", "s", "i", "a">>, <<"#", "f", "f", "0", "0", "f", "f">>>>,
      <<<<"p", "u", "r", "p", "l", "e">>, <<"#", "8", "0", "0", "0", "8", "0">>>>,
      <<<<"o", "r", "a", "n", "g", "e">>, <<"#", "f", "f", "a", "5", "0", "0">>>> }

\* A parse either yields an RGB triple or raises ValueError.
Rgb(r, g, b) == [ok |-> TRUE, rgb |-> <<r, g, b>>]

ValueError == [ok |-> FALSE, rgb |-> <<>>]

\* int(tok, 16) for a two-character token: two hex digits, or one hex digit
\* with a sign or whitespace around it; anything else raises ValueError.
IntBase16Ok(tok) ==
    \/ tok[1] \in Range(HexDigits) /\ tok[2] \in Range(HexDigits)
    \/ tok[1] \in {"+", "-"} \cup Whitespace /\ tok[2] \in Range(HexDigits)
    \/ tok[1] \in Range(HexDigits) /\ tok[2] \in Whitespace

HexVal(c) == IndexOf(HexDigits, c) - 1

IntBase16(tok) ==
    IF tok[1] \in Range(HexDigits) /\ tok[2] \in Range(HexDigits)
    THEN 16 * HexVal(tok[1]) + HexVal(tok[2])
    ELSE IF tok[1] = "-" THEN 0 - HexVal(tok[2])
    ELSE IF tok[1] \in Range(HexDigits) THEN HexVal(tok[1])
    ELSE HexVal(tok[2])

\* "".join([c * 2 for c in hex_string]) when len(hex_string) == 3
ExpandShorthand(h) ==
    IF Len(h) = 3 THEN <<h[1], h[1], h[2], h[2], h[3], h[3]>> ELSE h

ParseHexDigits(h) ==
    IF Len(h) # 6 THEN ValueError
    ELSE IF \A k \in 0..2 : IntBase16Ok(SubSeq(h, 2 * k + 1, 2 * k + 2))
    THEN Rgb(IntBase16(SubSeq(h, 1, 2)), IntBase16(SubSeq(h, 3, 4)),
             IntBase16(SubSeq(h, 5, 6)))
    ELSE ValueError

_parse_hex(hex_string) == ParseHexDigits(ExpandShorthand(lstrip(hex_string, {"#"})))

\* \s* and \d+ of the pattern of _parse_hsl: the first position from i on
\* that holds no blank, no digit.
RECURSIVE SkipSpace(_, _)
SkipSpace(s, i) ==
    IF i <= Len(s) /\ s[i] \in Whitespace THEN SkipSpace(s, i + 1) ELSE i

RECURSIVE SkipDigits(_, _)
SkipDigits(s, i) ==
    IF i <= Len(s) /\ s[i] \in Range(Digits) THEN SkipDigits(s, i + 1) ELSE i

HslAt(s, i, c) == i <= Len(s) /\ s[i] = c

RECURSIVE HslInt(_)
HslInt(digits) ==
    IF digits = <<>> THEN 0
    ELSE 10 * HslInt(SubSeq(digits, 1, Len(digits) - 1))
            + (IndexOf(Digits, digits[Len(digits)]) - 1)

HslGroup(s, from, to) == HslInt(SubSeq(s, from, to - 1))

\* Where binary floating point puts (r_prime + m) * 255 a hair below the whole
\* number that exact arithmetic gives, so that int() returns one less: the
\* <<s, l>> for the channel c + m and for the channel 0 + m, the <<h, s, l>>
\* for the channel x + m.
HslBelowC ==
    {<<20,75>>, <<100,10>>}

HslBelowM ==
    {<<25,84>>, <<50,60>>, <<100,60>>, <<100,70>>}

HslBelowX ==
    {<<0,25,84>>, <<0,50,60>>, <<0,100,60>>, <<0,100,70>>, <<4,100,50>>, <<5,30,84>>,
     <<5,40,60>>, <<5,40,85>>, <<5,40,95>>, <<5,80,60>>, <<5,80,96>>, <<6,75,50>>,
     <<8,100,25>>, <<8,100,50>>, <<10,25,24>>, <<10,25,48>>, <<10,30,25>>,
     <<10,30,50>>, <<10,50,30>>, <<10,50,60>>, <<10,50,85>>, <<10,50,95>>,
     <<10,75,40>>, <<10,75,60>>, <<10,90,50>>, <<10,100,20>>, <<10,100,40>>,
     <<10,100,52>>, <<10,100,60>>, <<10,100,72>>, <<10,100,96>>, <<12,100,50>>,
     <<15,100,60>>, <<16,100,25>>, <<16,100,50>>, <<20,50,8>>, <<20,50,16>>,
     <<20,50,24>>, <<20,50,48>>, <<20,50,60>>, <<20,60,25>>, <<20,60,50>>,
     <<20,75,52>>, <<20,75,84>>, <<20,100,20>>, <<20,100,30>>, <<20,100,40>>,
     <<20,100,50>>, <<20,100,55>>, <<20,100,60>>, <<20,100,70>>, <<20,100,85>>,
     <<20,100,95>>, <<40,60,75>>, <<40,75,32>>, <<40,100,15>>, <<40,100,30>>,
     <<40,100,35>>, <<40,100,70>>, <<50,25,76>>, <<50,25,84>>, <<50,100,4>>,
     <<55,20,76>>, <<55,20,84>>, <<55,24,75>>, <<55,30,48>>, <<55,40,30>>,
     <<55,60,60>>, <<55,70,52>>, <<55,72,25>>, <<55,72,50>>, <<55,80,4>>, <<55,80,12>>,
     <<55,80,24>>, <<55,80,36>>, <<55,80,48>>, <<60,20,75>>, <<60,100,10>>,
     <<65,20,76>>, <<65,20,84>>, <<65,24,75>>, <<65,80,4>>, <<66,75,25>>, <<66,75,50>>,
     <<70,25,76>>, <<70,25,84>>, <<70,50,5>>, <<70,50,10>>, <<70,50,15>>, <<70,50,30>>,
     <<70,50,35>>, <<70,50,70>>, <<70,70,75>>, <<70,75,60>>, <<70,100,4>>,
     <<70,100,12>>, <<70,100,24>>, <<70,100,48>>, <<70,100,60>>, <<85,100,40>>,
     <<85,100,60>>, <<85,100,84>>, <<92,100,50>>, <<96,100,25>>, <<96,100,50>>,
     <<100,50,8>>, <<100,50,16>>, <<100,50,24>>, <<100,50,48>>, <<100,50,60>>,
     <<100,60,25>>, <<100,60,50>>, <<100,75,52>>, <<100,75,84>>, <<100,100,20>>,
     <<100,100,30>>, <<100,100,40>>, <<100,100,50>>, <<100,100,55>>, <<100,100,60>>,
     <<100,100,70>>, <<100,100,85>>, <<100,100,95>>, <<104,100,25>>, <<104,100,50>>,
     <<105,100,60>>, <<108,100,50>>, <<110,50,85>>, <<110,50,95>>, <<110,100,96>>,
     <<112,100,25>>, <<112,100,50>>, <<115,24,25>>, <<115,24,50>>, <<115,30,52>>,
     <<115,30,84>>, <<115,40,30>>, <<115,40,60>>, <<115,40,85>>, <<115,40,95>>,
     <<115,45,32>>, <<115,56,25>>, <<115,56,50>>, <<115,60,60>>, <<115,70,16>>,
     <<115,70,48>>, <<115,72,50>>, <<115,80,20>>, <<115,80,40>>, <<115,80,52>>,
     <<115,80,60>>, <<115,80,64>>, <<115,80,72>>, <<115,80,96>>, <<115,88,25>>,
     <<115,88,50>>, <<115,95,32>>, <<115,100,40>>, <<115,100,60>>, <<116,100,50>>,
     <<120,25,84>>, <<120,50,60>>, <<120,100,60>>, <<120,100,70>>, <<122,50,25>>,
     <<122,50,50>>, <<125,30,84>>, <<125,40,85>>, <<125,40,95>>, <<125,80,96>>,
     <<128,100,25>>, <<128,100,50>>, <<130,25,24>>, <<130,25,32>>, <<130,25,48>>,
     <<130,30,25>>, <<130,30,50>>, <<130,50,20>>, <<130,50,30>>, <<130,50,40>>,
     <<130,50,50>>, <<130,50,60>>, <<130,50,70>>, <<130,50,85>>, <<130,50,95>>,
     <<130,70,25>>, <<130,70,50>>, <<130,75,40>>, <<130,75,60>>, <<130,90,50>>,
     <<130,100,20>>, <<130,100,40>>, <<130,100,52>>, <<130,100,56>>, <<130,100,60>>,
     <<130,100,64>>, <<130,100,72>>, <<130,100,88>>, <<130,100,96>>, <<135,100,60>>,
     <<136,100,25>>, <<136,100,50>>, <<138,50,25>>, <<138,50,50>>, <<140,100,95>>,
     <<144,100,25>>, <<144,100,50>>, <<145,40,50>>, <<145,100,8>>, <<145,100,16>>,
     <<145,100,24>>, <<145,100,32>>, <<145,100,40>>, <<145,100,48>>, <<145,100,60>>,
     <<146,50,50>>, <<152,100,25>>, <<152,100,50>>, <<160,50,40>>, <<160,50,52>>,
     <<160,50,60>>, <<160,50,76>>, <<160,60,50>>, <<160,60,75>>, <<160,75,16>>,
     <<160,75,32>>, <<160,75,48>>, <<160,100,5>>, <<160,100,10>>, <<160,100,15>>,
     <<160,100,20>>, <<160,100,25>>, <<160,100,30>>, <<160,100,35>>, <<160,100,40>>,
     <<160,100,45>>, <<160,100,50>>, <<160,100,60>>, <<160,100,70>>, <<168,100,25>>,
     <<168,100,50>>, <<170,25,76>>, <<170,25,84>>, <<174,75,25>>, <<174,75,50>>,
     <<175,20,76>>, <<175,20,84>>, <<175,24,75>>, <<175,30,16>>, <<175,30,32>>,
     <<175,30,48>>, <<175,40,5>>, <<175,40,10>>, <<175,40,15>>, <<175,40,30>>,
     <<175,40,35>>, <<175,40,70>>, <<175,60,40>>, <<175,60,60>>, <<175,70,52>>,
     <<175,70,68>>, <<175,72,25>>, <<175,72,50>>, <<175,80,4>>, <<175,80,12>>,
     <<175,80,24>>, <<175,80,32>>, <<175,80,36>>, <<175,80,48>>, <<175,80,60>>,
     <<175,88,50>>, <<175,95,68>>, <<175,100,60>>, <<176,100,25>>, <<176,100,50>>,
     <<180,20,75>>, <<180,100,10>>, <<184,100,25>>, <<184,100,50>>, <<185,20,76>>,
     <<185,20,84>>, <<185,24,75>>, <<185,30,16>>, <<185,30,32>>, <<185,30,48>>,
     <<185,40,5>>, <<185,40,10>>, <<185,40,15>>, <<185,40,30>>, <<185,40,35>>,
     <<185,40,70>>, <<185,60,40>>, <<185,60,60>>, <<185,70,52>>, <<185,70,68>>,
     <<185,72,25>>, <<185,72,50>>, <<185,80,4>>, <<185,80,12>>, <<185,80,24>>,
     <<185,80,32>>, <<185,80,36>>, <<185,80,48>>, <<185,80,60>>, <<185,88,50>>,
     <<185,95,68>>, <<185,100,60>>, <<186,75,25>>, <<186,75,50>>, <<190,25,76>>,
     <<190,25,84>>, <<192,100,25>>, <<192,100,50>>, <<200,50,40>>, <<200,50,52>>,
     <<200,50,60>>, <<200,50,76>>, <<200,60,50>>, <<200,60,75>>, <<200,75,16>>,
     <<200,75,32>>, <<200,75,48>>, <<200,100,5>>, <<200,100,10>>, <<200,100,15>>,
     <<200,100,20>>, <<200,100,25>>, <<200,100,30>>, <<200,100,35>>, <<200,100,40>>,
     <<200,100,45>>, <<200,100,50>>, <<200,100,60>>, <<200,100,70>>, <<208,100,25>>,
     <<208,100,50>>, <<214,50,50>>, <<215,40,50>>, <<215,100,8>>, <<215,100,16>>,
     <<215,100,24>>, <<215,100,32>>, <<215,100,40>>, <<215,100,48>>, <<215,100,60>>,
     <<216,100,25>>, <<216,100,50>>, <<220,100,95>>, <<222,50,25>>, <<222,50,50>>,
     <<224,100,25>>, <<224,100,50>>, <<225,100,60>>, <<230,25,24>>, <<230,25,32>>,
     <<230,25,48>>, <<230,30,25>>, <<230,30,50>>, <<230,50,20>>, <<230,50,30>>,
     <<230,50,40>>, <<230,50,50>>, <<230,50,60>>, <<230,50,70>>, <<230,50,85>>,
     <<230,50,95>>, <<230,70,25>>, <<230,70,50>>, <<230,75,40>>, <<230,75,60>>,
     <<230,90,50>>, <<230,100,20>>, <<230,100,40>>, <<230,100,52>>, <<230,100,56>>,
     <<230,100,60>>, <<230,100,64>>, <<230,100,72>>, <<230,100,88>>, <<230,100,96>>,
     <<232,100,25>>, <<232,100,50>>, <<235,30,84>>, <<235,40,85>>, <<235,40,95>>,
     <<235,80,96>>, <<238,50,25>>, <<238,50,50>>, <<240,25,84>>, <<240,50,60>>,
     <<240,100,60>>, <<240,100,70>>, <<242,50,25>>, <<242,50,50>>, <<244,100,50>>,
     <<244,100,75>>, <<245,20,24>>, <<245,20,32>>, <<245,20,48>>, <<245,24,25>>,
     <<245,24,50>>, <<245,30,52>>, <<245,30,84>>, <<245,40,10>>, <<245,40,20>>,
     <<245,40,30>>, <<245,40,40>>, <<245,40,50>>, <<245,40,55>>, <<245,40,60>>,
     <<245,40,65>>, <<245,40,70>>, <<245,40,85>>, <<245,40,90>>, <<245,40,95>>,
     <<245,45,32>>, <<245,55,68>>, <<245,56,25>>, <<245,56,50>>, <<245,60,40>>,
     <<245,60,60>>, <<245,70,16>>, <<245,70,32>>, <<245,70,48>>, <<245,72,50>>,
     <<245,80,20>>, <<245,80,40>>, <<245,80,52>>, <<245,80,56>>, <<245,80,60>>,
     <<245,80,64>>, <<245,80,68>>, <<245,80,72>>, <<245,80,88>>, <<245,80,96>>,
     <<245,88,25>>, <<245,88,50>>, <<245,95,32>>, <<245,100,40>>, <<245,100,60>>,
     <<246,25,25>>, <<246,25,50>>, <<246,75,50>>, <<246,75,75>>, <<250,50,85>>,
     <<250,50,95>>, <<255,100,60>>, <<256,100,25>>, <<256,100,50>>, <<258,50,25>>,
     <<258,50,50>>, <<260,20,50>>, <<260,50,8>>, <<260,50,16>>, <<260,50,24>>,
     <<260,50,32>>, <<260,50,40>>, <<260,50,48>>, <<260,50,60>>, <<260,60,25>>,
     <<260,60,50>>, <<260,75,52>>, <<260,75,68>>, <<260,75,84>>, <<260,100,10>>,
     <<260,100,20>>, <<260,100,30>>, <<260,100,40>>, <<260,100,50>>, <<260,100,55>>,
     <<260,100,60>>, <<260,100,65>>, <<260,100,70>>, <<260,100,75>>, <<260,100,85>>,
     <<260,100,95>>, <<262,25,50>>, <<262,75,25>>, <<262,75,50>>, <<272,100,25>>,
     <<272,100,50>>, <<274,50,25>>, <<274,50,50>>, <<275,25,32>>, <<275,40,25>>,
     <<275,40,50>>, <<275,100,40>>, <<275,100,52>>, <<275,100,60>>, <<275,100,68>>,
     <<275,100,76>>, <<275,100,84>>, <<276,100,50>>, <<276,100,75>>, <<288,100,25>>,
     <<288,100,50>>, <<290,25,76>>, <<290,25,84>>, <<290,30,50>>, <<290,50,5>>,
     <<290,50,10>>, <<290,50,15>>, <<290,50,20>>, <<290,50,25>>, <<290,50,30>>,
     <<290,50,35>>, <<290,50,40>>, <<290,50,45>>, <<290,50,50>>, <<290,50,60>>,
     <<290,50,70>>, <<290,70,50>>, <<290,70,75>>, <<290,75,40>>, <<290,75,60>>,
     <<290,90,25>>, <<290,90,50>>, <<290,100,4>>, <<290,100,8>>, <<290,100,12>>,
     <<290,100,16>>, <<290,100,20>>, <<290,100,24>>, <<290,100,28>>, <<290,100,32>>,
     <<290,100,36>>, <<290,100,40>>, <<290,100,44>>, <<290,100,48>>, <<290,100,60>>,
     <<290,100,80>>, <<292,100,50>>, <<292,100,75>>, <<295,24,75>>, <<300,20,75>>,
     <<300,100,10>>, <<305,24,75>>, <<308,100,50>>, <<308,100,75>>, <<310,25,76>>,
     <<310,25,84>>, <<310,30,50>>, <<310,50,5>>, <<310,50,10>>, <<310,50,15>>,
     <<310,50,20>>, <<310,50,25>>, <<310,50,30>>, <<310,50,35>>, <<310,50,40>>,
     <<310,50,45>>, <<310,50,50>>, <<310,50,60>>, <<310,50,70>>, <<310,70,50>>,
     <<310,70,75>>, <<310,75,40>>, <<310,75,60>>, <<310,90,25>>, <<310,90,50>>,
     <<310,100,4>>, <<310,100,8>>, <<310,100,12>>, <<310,100,16>>, <<310,100,20>>,
     <<310,100,24>>, <<310,100,28>>, <<310,100,32>>, <<310,100,36>>, <<310,100,40>>,
     <<310,100,44>>, <<310,100,48>>, <<310,100,60>>, <<310,100,80>>, <<312,100,25>>,
     <<312,100,50>>, <<324,100,50>>, <<324,100,75>>, <<325,25,32>>, <<325,40,25>>,
     <<325,40,50>>, <<325,100,40>>, <<325,100,52>>, <<325,100,60>>, <<325,100,68>>,
     <<325,100,76>>, <<325,100,84>>, <<326,50,25>>, <<326,50,50>>, <<328,100,25>>,
     <<328,100,50>>, <<338,25,50>>, <<338,75,25>>, <<338,75,50>>, <<340,20,50>>,
     <<340,50,8>>, <<340,50,16>>, <<340,50,24>>, <<340,50,32>>, <<340,50,40>>,
     <<340,50,48>>, <<340,50,60>>, <<340,60,25>>, <<340,60,50>>, <<340,75,52>>,
     <<340,75,68>>, <<340,75,84>>, <<340,100,10>>, <<340,100,20>>, <<340,100,30>>,
     <<340,100,40>>, <<340,100,50>>, <<340,100,55>>, <<340,100,60>>, <<340,100,65>>,
     <<340,100,70>>, <<340,100,75>>, <<340,100,85>>, <<340,100,95>>, <<342,50,25>>,
     <<342,50,50>>, <<344,100,25>>, <<344,100,50>>, <<345,100,60>>, <<350,50,85>>,
     <<350,50,95>>, <<354,25,25>>, <<354,25,50>>, <<354,75,50>>, <<354,75,75>>,
     <<355,20,24>>, <<355,20,32>>, <<355,20,48>>, <<355,24,25>>, <<355,24,50>>,
     <<355,30,52>>, <<355,30,84>>, <<355,40,10>>, <<355,40,20>>, <<355,40,30>>,
     <<355,40,40>>, <<355,40,50>>, <<355,40,55>>, <<355,40,60>>, <<355,40,65>>,
     <<355,40,70>>, <<355,40,85>>, <<355,40,90>>, <<355,40,95>>, <<355,45,32>>,
     <<355,55,68>>, <<355,56,25>>, <<355,56,50>>, <<355,60,40>>, <<355,60,60>>,
     <<355,70,16>>, <<355,70,32>>, <<355,70,48>>, <<355,72,50>>, <<355,80,20>>,
     <<355,80,40>>, <<355,80,52>>, <<355,80,56>>, <<355,80,60>>, <<355,80,64>>,
     <<355,80,68>>, <<355,80,72>>, <<355,80,88>>, <<355,80,96>>, <<355,88,25>>,
     <<355,88,50>>, <<355,95,32>>, <<355,100,40>>, <<355,100,60>>, <<356,100,50>>,
     <<356,100,75>>, <<358,50,25>>, <<358,50,50>>, <<360,25,84>>, <<360,50,60>>,
     <<360,100,60>>, <<360,100,70>>}

HslAbs(n) == IF n < 0 THEN 0 - n ELSE n

HslBelow(b) == IF b THEN 1 ELSE 0

\* c = (1 - abs(2 * l - 1)) * s, in units of 1/10000.
HslChroma(s, l) == (100 - HslAbs(2 * l - 100)) * s

\* x = c * (1 - abs((h / 60) % 2 - 1)), in units of 1/600000.
HslX(h, chroma) == chroma * (60 - HslAbs((h % 120) - 60))

\* The six branches on the hue.
HslSector(h, c, x, m) ==
    IF h < 60 THEN Rgb(c, x, m)
    ELSE IF h < 120 THEN Rgb(x, c, m)
    ELSE IF h < 180 THEN Rgb(m, c, x)
    ELSE IF h < 240 THEN Rgb(m, x, c)
    ELSE IF h < 300 THEN Rgb(x, m, c)
    ELSE Rgb(c, m, x)

\* int((r_prime + m) * 255) for r_prime = c, x and 0, with m = l - c / 2.
HslChannels(h, s, l, chroma) ==
    HslSector(h,
              ((255 * (200 * l + chroma)) \div 20000) - HslBelow(<<s, l>> \in HslBelowC),
              ((255 * (HslX(h, chroma) + 30 * (200 * l - chroma))) \div 600000)
                  - HslBelow(<<h, s, l>> \in HslBelowX),
              ((255 * (200 * l - chroma)) \div 20000) - HslBelow(<<s, l>> \in HslBelowM))

\* The three range checks, then the conversion.
HslConvert(h, s, l) ==
    IF h > 360 \/ s > 100 \/ l > 100 THEN ValueError
    ELSE HslChannels(h, s, l, HslChroma(s, l))

\* The pattern hsl\(\s*(\d+)\s*,\s*(\d+)%\s*,\s*(\d+)%\s*\) matched at the
\* start of the string, group by group; text after ")" is not looked at.
HslThirdGroup(s, h, sat, from, to) ==
    IF to > from /\ HslAt(s, to, "%") /\ HslAt(s, SkipSpace(s, to + 1), ")")
    THEN HslConvert(h, sat, HslGroup(s, from, to))
    ELSE ValueError

HslAfterSecond(s, h, sat, from) == HslThirdGroup(s, h, sat, from, SkipDigits(s, from))

HslSecondGroup(s, h, from, to) ==
    IF to > from /\ HslAt(s, to, "%") /\ HslAt(s, SkipSpace(s, to + 1), ",")
    THEN HslAfterSecond(s, h, HslGroup(s, from, to),
                        SkipSpace(s, SkipSpace(s, to + 1) + 1))
    ELSE ValueError

HslAfterFirst(s, h, from) == HslSecondGroup(s, h, from, SkipDigits(s, from))

HslFirstGroup(s, from, to) ==
    IF to > from /\ HslAt(s, SkipSpace(s, to), ",")
    THEN HslAfterFirst(s, HslGroup(s, from, to), SkipSpace(s, SkipSpace(s, to) + 1))
    ELSE ValueError

HslAfterOpen(s, from) == HslFirstGroup(s, from, SkipDigits(s, from))

_parse_hsl(hsl_string) ==
    IF startswith(hsl_string, <<"h", "s", "l", "(">>)
    THEN HslAfterOpen(hsl_string, SkipSpace(hsl_string, 5))
    ELSE ValueError

NamedColor(s) == {e \in CSS_NAMED_COLORS : e[1] = s}

\* parse_color after color_string.strip().lower()
ParseNormalized(s) ==
    IF startswith(s, <<"#">>) THEN _parse_hex(s)
    ELSE IF startswith(s, <<"h", "s", "l">>) THEN _parse_hsl(s)
    ELSE IF NamedColor(s) # {} THEN _parse_hex((CHOOSE e \in NamedColor(s) : TRUE)[2])
    ELSE ValueError

parse_color(color_string) == ParseNormalized(lower(strip(color_string)))

\* f"{n:02x}": lowercase hex, zero-padded to width two; a minus sign counts
\* towards the width.
HexOf(m) ==
    IF m < 16 THEN <<HexDigits[m + 1]>>
    ELSE <<HexDigits[(m \div 16) + 1], HexDigits[(m % 16) + 1]>>

\* f"{n:x}": no padding.
FormatHex02_unpadded(n) ==
    IF n < 0 THEN <<"-">> \o HexOf(0 - n) ELSE HexOf(n)

FormatHex02(n) ==
    IF n < 0 THEN <<"-">> \o HexOf(0 - n)
    ELSE IF n < 16 THEN <<"0">> \o HexOf(n)
    ELSE HexOf(n)

rgb_to_hex(rgb) ==
    <<"#">> \o FormatHex02(rgb[1]) \o FormatHex02(rgb[2]) \o FormatHex02(rgb[3])

\* gamma_correct(c / 255.0) in units of 10^-5, rounded to nearest, for
\* c = 0..255 (entry c + 1).
LinearTable ==
    << 0, 30, 61, 91, 121, 152, 182, 212, 243, 273, 304, 335,
       368, 402, 439, 478, 518, 561, 605, 651, 700, 750, 802, 857,
       913, 972, 1033, 1096, 1161, 1229, 1298, 1370, 1444, 1521, 1600, 1681,
       1764, 1850, 1938, 2029, 2122, 2217, 2315, 2416, 2519, 2624, 2732, 2843,
       2956, 3071, 3190, 3310, 3434, 3560, 3689, 3820, 3955, 4092, 4231, 4374,
       4519, 4667, 4817, 4971, 5127, 5286, 5448, 5613, 5781, 5951, 6125, 6301,
       6480, 6663, 6848, 7036, 7227, 7421, 7619, 7819, 8022, 8228, 8438, 8650,
       8866, 9084, 9306, 9531, 9759, 9990, 10224, 10462, 10702, 10946, 11193, 11444,
       11697, 11954, 12214, 12477, 12744, 13014, 13287, 13563, 13843, 14126, 14413, 14703,
       14996, 15293, 15593, 15896, 16203, 16513, 16827, 17144, 17465, 17789, 18116, 18447,
       18782, 19120, 19462, 19807, 20156, 20508, 20864, 21223, 21586, 21953, 22323, 22697,
       23074, 23455, 23840, 24228, 24620, 25016, 25415, 25818, 26225, 26636, 27050, 27468,
       27889, 28315, 28744, 29177, 29614, 30054, 30499, 30947, 31399, 31855, 32314, 32778,
       33245, 33716, 34191, 34670, 35153, 35640, 36131, 36625, 37124, 37626, 38133, 38643,
       39157, 39676, 40198, 40724, 41254, 41789, 42327, 42869, 43415, 43966, 44520, 45079,
       45641, 46208, 46778, 47353, 47932, 48515, 49102, 49693, 50289, 50888, 51492, 52100,
       52712, 53328, 53948, 54572, 55201, 55834, 56471, 57112, 57758, 58408, 59062, 59720,
       60383, 61050, 61721, 62396, 63076, 63760, 64448, 65141, 65837, 66539, 67244, 67954,
       68669, 69387, 70110, 70838, 71569, 72306, 73046, 73791, 74540, 75294, 76052, 76815,
       77582, 78354, 79130, 79910, 80695, 81485, 82279, 83077, 83880, 84687, 85499, 86316,
       87137, 87962, 88792, 89627, 90466, 91310, 92158, 93011, 93869, 94731, 95597, 96469,
       97345, 98225, 99110, 100000 >>

\* A channel below 0 takes the linear branch, (c / 255.0) / 12.92.
gamma_correct(c) ==
    IF c >= 0 THEN LinearTable[c + 1]
    ELSE 0 - (((0 - c) * 2000000 + 32946) \div 65892)

\* Relative luminance in units of 10^-7.
get_relative_luminance(rgb) ==
    (2126 * gamma_correct(rgb[1]) + 7152 * gamma_correct(rgb[2])
        + 722 * gamma_correct(rgb[3])) \div 100

\* The ratio (l1 + 0.05) / (l2 + 0.05) with l1 the lighter, kept as numerator
\* and denominator.
ContrastOfLuminances(a, b) ==
    [num |-> (IF a < b THEN b ELSE a) + 500000,
     den |-> (IF a < b THEN a ELSE b) + 500000]

calculate_contrast_ratio(color1, color2) ==
    ContrastOfLuminances(get_relative_luminance(parse_color(color1).rgb),
                         get_relative_luminance(parse_color(color2).rgb))

\* ratio >= tenths / 10
RatioAtLeast(ratio, tenths) == 10 * ratio.num >= tenths * ratio.den

meets_wcag_aa(ratio) == RatioAtLeast(ratio, 45)

meets_wcag_aaa(ratio) == RatioAtLeast(ratio, 70)

get_contrast_rating(ratio) ==
    IF meets_wcag_aaa(ratio) THEN "Excellent - WCAG AAA"
    ELSE IF meets_wcag_aa(ratio) THEN "Good - WCAG AA"
    ELSE "Poor - Below WCAG AA"

\* int(x / 100) for the float x / 100: truncation towards zero.
TruncDiv100(x) == IF x >= 0 THEN x \div 100 ELSE 0 - ((0 - x) \div 100)

\* factor = 1.0 - (percentage / 100.0) is a double: for these percentages it
\* is below (100 - percentage) / 100, and for these channel values (either
\* sign) the product channel * factor, exactly an integer, comes out just
\* below it, so that int() gives one less.
DarkerRoundsBelow(percentage) ==
    CASE percentage = 30 -> {90, 170, 180}
      [] percentage = 32 -> {75, 125, 150, 175, 250}
      [] percentage \in {34, 78} -> {50 * k : k \in 1..5}
      [] percentage = 54 -> {250}
      [] percentage = 55 -> {60, 100, 120, 140, 180, 200, 220, 240}
      [] percentage \in {56, 68, 92} -> {25 * k : k \in 1..10}
      [] percentage = 65 -> {180}
      [] percentage = 66 -> {150, 250}
      [] percentage \in {67, 79, 81, 89, 91, 93} -> {100, 200}
      [] percentage = 80 -> {5 * k : k \in 1..51}
      [] percentage = 90 -> {10 * k : k \in 1..25}
      [] OTHER -> {}

\* int(rgb[i] * factor), for an integer percentage in 0..100.
Darker(rgb, percentage) ==
    [i \in 1..3 |->
        IF rgb[i] \in DarkerRoundsBelow(percentage)
        THEN TruncDiv100(rgb[i] * (100 - percentage)) - 1
        ELSE IF 0 - rgb[i] \in DarkerRoundsBelow(percentage)
        THEN TruncDiv100(rgb[i] * (100 - percentage)) + 1
        ELSE TruncDiv100(rgb[i] * (100 - percentage))]

suggest_darker(color, percentage) ==
    rgb_to_hex(Darker(parse_color(color).rgb, percentage))

Lighter(rgb, percentage) ==
    <<TruncDiv100(rgb[1] * 100 + (255 - rgb[1]) * percentage),
      TruncDiv100(rgb[2] * 100 + (255 - rgb[2]) * percentage),
      TruncDiv100(rgb[3] * 100 + (255 - rgb[3]) * percentage)>>

suggest_lighter(color, percentage) ==
    rgb_to_hex(Lighter(parse_color(color).rgb, percentage))

\* config.py defines no COLOR_ADJUSTMENT_START, _END or _STEP: evaluating the
\* arguments of range() raises AttributeError before the first candidate is
\* tried, on the light and on the dark branch alike.
suggest_accessible_color(foreground, background, target_tenths) ==
    IF RatioAtLeast(calculate_contrast_ratio(foreground, background), target_tenths)
    THEN [raised |-> "none", value |-> rgb_to_hex(parse_color(foreground).rgb)]
    ELSE [raised |-> "AttributeError", value |-> <<>>]

(***************************************************************************)
(* theme_builder.py: validators                                            *)
(***************************************************************************)
\* A comparison with the listing that ignores letter case.
validate_theme_name_caseless(name, existing_themes) ==
    IF name = <<>> THEN "Theme name cannot be empty"
    ELSE IF ~(\A i \in DOMAIN name : isalnum(name[i]) \/ name[i] \in {"-", "_"})
    THEN "Theme name can only contain letters, numbers, hyphens, and underscores"
    ELSE IF lower(name) \in {lower(t) : t \in existing_themes} THEN "Theme already exists"
    ELSE "ok"

validate_theme_name(name, existing_themes) ==
    IF name = <<>> THEN "Theme name cannot be empty"
    ELSE IF ~(\A i \in DOMAIN name : isalnum(name[i]) \/ name[i] \in {"-", "_"})
    THEN "Theme name can only contain letters, numbers, hyphens, and underscores"
    ELSE IF name \in existing_themes THEN "Theme already exists"
    ELSE "ok"

validate_color_input(color) ==
    IF parse_color(color).ok THEN "ok" ELSE "Invalid color format"

IsDigits(s) == \A i \in DOMAIN s : s[i] \in Range(Digits)

RECURSIVE DecimalValue(_)
DecimalValue(s) ==
    IF s = <<>> THEN 0
    ELSE 10 * DecimalValue(Front(s)) + (IndexOf(Digits, s[Len(s)]) - 1)

\* float(s) for the literals without exponent or digit separators: optional
\* whitespace around, optional sign, then nan, inf, infinity or a decimal
\* with at most one point and at least one digit.  The value is kept as its
\* sign, integer part and whether the fraction is non-zero.
FloatValue(kind, neg, int, frac) ==
    [kind |-> kind, neg |-> neg, int |-> int, frac |-> frac]

FloatDecimal(ip, fp, neg) ==
    IF IsDigits(ip) /\ IsDigits(fp) /\ Len(ip) + Len(fp) >= 1
    THEN FloatValue("num", neg, DecimalValue(ip), DecimalValue(fp) # 0)
    ELSE FloatValue("ValueError", FALSE, 0, FALSE)

FloatSplit(body, dots, neg) ==
    IF dots = {} THEN FloatDecimal(body, <<>>, neg)
    ELSE IF Cardinality(dots) > 1 THEN FloatValue("ValueError", FALSE, 0, FALSE)
    ELSE FloatDecimal(SubSeq(body, 1, (CHOOSE i \in dots : TRUE) - 1),
                      SubSeq(body, (CHOOSE i \in dots : TRUE) + 1, Len(body)), neg)

FloatBody(body, neg) ==
    IF body = <<"n", "a", "n">> THEN FloatValue("nan", neg, 0, FALSE)
    ELSE IF body \in {<<"i", "n", "f">>, <<"i", "n", "f", "i", "n", "i", "t", "y">>} THEN FloatValue("inf", neg, 0, FALSE)
    ELSE FloatSplit(body, {i \in DOMAIN body : body[i] = "."}, neg)

FloatSigned(t) ==
    IF t # <<>> /\ t[1] \in {"+", "-"} THEN FloatBody(lower(Tail2(t)), t[1] = "-")
    ELSE FloatBody(lower(t), FALSE)

float(s) == FloatSigned(strip(s))

\* value <= 0 and value > 100 as Python compares floats: both are false of nan.
FloatLeqZero(v) ==
    \/ v.kind = "inf" /\ v.neg
    \/ v.kind = "num" /\ (v.neg \/ (v.int = 0 /\ ~v.frac))

FloatGt100(v) ==
    \/ v.kind = "inf" /\ ~v.neg
    \/ v.kind = "num" /\ ~v.neg /\ (v.int > 100 \/ (v.int = 100 /\ v.frac))

FontSizeVerdict(value) ==
    IF value.kind = "ValueError" \/ FloatLeqZero(value) \/ FloatGt100(value)
    THEN "Invalid font size"
    ELSE "ok"

\* size[:-2] if size.endswith("pt")
WithoutPt(s) == IF endswith(s, <<"p", "t">>) THEN SubSeq(s, 1, Len(s) - 2) ELSE s

validate_font_size(size) == FontSizeVerdict(float(WithoutPt(strip(size))))

(***************************************************************************)
(* theme_builder.py: the prompts                                           *)
(***************************************************************************)
FieldKeys == <<"name", "background_color", "text_color", "font_family",
               "body_text_size", "h1_color", "h2_h6_color", "accent_color",
               "code_bg_color", "table_header_bg">>

FieldDefault == <<<<>>, <<"#", "f", "f", "f", "f", "f", "f">>, <<"#", "0", "0", "0", "0", "0", "0">>, <<"A", "r", "i", "a", "l", ",", " ", "s", "a", "n", "s", "-", "s", "e", "r", "i", "f">>,
                  <<"1", "1", "p", "t">>, <<"#", "2", "c", "3", "e", "5", "0">>, <<"#", "2", "c", "3", "e", "5", "0">>, <<"#", "6", "6", "7", "e", "e", "a">>,
                  <<"#", "f", "5", "f", "5", "f", "5">>, <<"#", "6", "6", "7", "e", "e", "a">>>>

FieldValidator == <<"validate_theme_name", "validate_color_input",
                    "validate_color_input", "none", "validate_font_size",
                    "validate_color_input", "validate_color_input",
                    "validate_color_input", "validate_color_input",
                    "validate_color_input">>

FieldAllowEmpty == <<FALSE, TRUE, TRUE, TRUE, TRUE, TRUE, TRUE, TRUE, TRUE, TRUE>>

\* The fields whose loop calls check_contrast_and_warn.
ContrastChecked == {"text_color", "h1_color", "h2_h6_color", "accent_color"}

ColorValued == {"background_color", "text_color", "h1_color", "h2_h6_color",
                "accent_color", "code_bg_color", "table_header_bg"}

NumFields == Len(FieldKeys)

RunValidator(validator, user_input, existing_themes) ==
    IF validator = "validate_theme_name"
    THEN validate_theme_name(user_input, existing_themes)
    ELSE IF validator = "validate_color_input" THEN validate_color_input(user_input)
    ELSE validate_font_size(user_input)

Returned(value) == [returned |-> TRUE, value |-> value, err |-> "none"]

Reprompt(err) == [returned |-> FALSE, value |-> <<>>, err |-> err]

\* A loop that returns the line whatever the validator said.
Validated_ignoring_verdict(user_input, verdict) == Returned(user_input)

Validated(user_input, verdict) ==
    IF verdict = "ok" THEN Returned(user_input) ELSE Reprompt(verdict)

PromptLoopBody(default, validator, allow_empty, user_input, existing_themes) ==
    IF user_input = <<>>
    THEN IF allow_empty THEN Returned(default) ELSE Reprompt("This field is required.")
    ELSE IF validator # "none"
    THEN Validated(user_input, RunValidator(validator, user_input, existing_themes))
    ELSE Returned(user_input)

\* One pass of the loop of prompt_with_validation on the line that input()
\* returned: either the function returns a value or it prints an error and
\* prompts again.
prompt_with_validation(default, validator, allow_empty, line, existing_themes) ==
    PromptLoopBody(default, validator, allow_empty, strip(line), existing_themes)

ContrastOutcome(raised, ask) == [raised |-> raised, ask |-> ask]

WarnAndSuggest(suggestion) ==
    IF suggestion.raised # "none" THEN ContrastOutcome(suggestion.raised, FALSE)
    ELSE ContrastOutcome("none", TRUE)

\* check_contrast_and_warn up to its input() call: the contrast passes, or
\* the warning is printed and the suggestion computed, which either raises
\* or leaves the override question to be answered.
check_contrast_and_warn(foreground, background) ==
    IF meets_wcag_aa(calculate_contrast_ratio(foreground, background))
    THEN ContrastOutcome("none", FALSE)
    ELSE WarnAndSuggest(suggest_accessible_color(foreground, background, 45))

\* ... and from the answer on: response == "y".
check_contrast_and_warn_answer(line) == lower(strip(line)) = <<"y">>

\* The value prompt_theme_properties stores for a field.
StoredValue(key, value) ==
    IF key \in ColorValued THEN rgb_to_hex(parse_color(value).rgb)
    ELSE IF key = "body_text_size" /\ ~endswith(value, <<"p", "t">>)
    THEN value \o <<"p", "t">>
    ELSE value

SetItem(d, key, value) ==
    [k \in DOMAIN d \cup {key} |-> IF k = key THEN value ELSE d[k]]

\* A summary that is content when one of the four colours passes.
display_summary_any(props) ==
    IF \E key \in ContrastChecked :
          meets_wcag_aa(calculate_contrast_ratio(props[key], props.background_color))
    THEN "All contrast ratios meet WCAG AA standards"
    ELSE "Some contrast ratios are below WCAG AA"

display_summary(props) ==
    IF \A key \in ContrastChecked :
          meets_wcag_aa(calculate_contrast_ratio(props[key], props.background_color))
    THEN "All contrast ratios meet WCAG AA standards"
    ELSE "Some contrast ratios are below WCAG AA"

\* The exceptions of the model that derive from Exception.
ExceptionSubclasses == {"EOFError", "AttributeError", "IOError", "ValueError"}

\* A handler without the KeyboardInterrupt clause.
run_theme_wizard_except_without_interrupt(exception) ==
    IF exception \in ExceptionSubclasses
    THEN [status |-> "exit1", out |-> "Error"]
    ELSE [status |-> "uncaught", out |-> "Traceback"]

\* A handler whose second clause catches IOError only.
run_theme_wizard_except_ioerror_only(exception) ==
    IF exception = "KeyboardInterrupt"
    THEN [status |-> "exit0", out |-> "Theme creation cancelled."]
    ELSE IF exception = "IOError"
    THEN [status |-> "exit1", out |-> "Error"]
    ELSE [status |-> "uncaught", out |-> "Traceback"]

\* The two except clauses of run_theme_wizard; anything they do not catch
\* leaves the function as a traceback.
run_theme_wizard_except(exception) ==
    IF exception = "KeyboardInterrupt"
    THEN [status |-> "exit0", out |-> "Theme creation cancelled."]
    ELSE IF exception \in ExceptionSubclasses
    THEN [status |-> "exit1", out |-> "Error"]
    ELSE [status |-> "uncaught", out |-> "Traceback"]

\* An open that refuses a file that is already there, as mode "x" does.
save_theme_open_exclusive(exists, fault) ==
    IF fault = "none" /\ ~exists THEN "opened" ELSE "IOError"

\* save_theme, open(theme_path, "w"): the file is created or truncated
\* whether or not it exists, unless the storage refuses; OSError becomes
\* IOError("Failed to save theme").
save_theme_open(exists, fault) == IF fault = "none" THEN "opened" ELSE "IOError"

\* save_theme, f.write(css_content) and the close: what the file holds when
\* the first `written` tokens reached it.
save_theme_write(content, css_content, written) == SubSeq(css_content, 1, written)

\* The f-string css_template: one token per line of fixed text, the
\* interpolated values character by character.
css_template(props, hover_color, table_alt_row, code_border) ==
    <<"/* Theme: ">>
    \o props.name
    \o <<" */\n", "/* Generated by md2pdf Interactive Theme Builder */\n", "\n",
           "@page {\n", "    size: A4;\n", "    margin: 0;\n", "}\n", "\n", "body {\n",
           "    font-family: '">>
    \o props.font_family
    \o <<"';\n", "    font-size: ">>
    \o props.body_text_size
    \o <<";\n", "    line-height: 1.6;\n", "    color: ">>
    \o props.text_color
    \o <<";\n", "    background-color: ">>
    \o props.background_color
    \o <<";\n", "    padding: 2cm;\n", "}\n", "\n", "h1,\n", "h2,\n", "h3,\n", "h4,\n",
           "h5,\n", "h6 {\n", "    margin-top: 1.5em;\n", "    margin-bottom: 0.5em;\n",
           "    page-break-after: avoid;\n", "}\n", "\n", "h1 {\n",
           "    font-size: 32pt;\n", "    color: ">>
    \o props.h1_color
    \o <<";\n", "    background: ">>
    \o props.code_bg_color
    \o <<";\n", "    padding: 20px;\n", "    border-radius: 10px;\n",
           "    text-align: center;\n", "    font-weight: 700;\n",
           "    border-left: 5px solid ">>
    \o props.accent_color
    \o <<";\n", "}\n", "\n", "#document-section-header {\n", "    font-size: 28pt;\n",
           "    color: ">>
    \o props.h1_color
    \o <<";\n", "    padding: 20px;\n", "    text-align: right;\n",
           "    font-weight: 600;\n", "}\n", "\n", "h2 {\n", "    font-size: 24pt;\n",
           "    color: ">>
    \o props.h2_h6_color
    \o <<";\n", "    background: ">>
    \o props.code_bg_color
    \o <<";\n", "    padding: 15px;\n", "    border-radius: 8px;\n",
           "    border-left: 4px solid ">>
    \o props.accent_color
    \o <<";\n", "}\n", "\n", "h3 {\n", "    font-size: 18pt;\n", "    color: ">>
    \o props.h2_h6_color
    \o <<";\n", "    background: ">>
    \o props.code_bg_color
    \o <<";\n", "    padding: 10px;\n", "    border-radius: 5px;\n",
           "    font-weight: 600;\n", "}\n", "\n", "h4 {\n", "    font-size: 16pt;\n",
           "    color: ">>
    \o props.h2_h6_color
    \o <<";\n", "    font-weight: 600;\n", "}\n", "\n", "h5 {\n",
           "    font-size: 14pt;\n", "    color: ">>
    \o props.h2_h6_color
    \o <<";\n", "    font-weight: 600;\n", "}\n", "\n", "h6 {\n",
           "    font-size: 12pt;\n", "    color: ">>
    \o props.h2_h6_color
    \o <<";\n", "    font-weight: 600;\n", "}\n", "\n", "p {\n",
           "    margin: 10px 0;\n", "    font-size: ">>
    \o props.body_text_size
    \o <<";\n", "}\n", "\n", "ul,\n", "ol {\n", "    padding: 0 0 0 2em;\n",
           "    margin: 10px 0;\n", "    font-size: ">>
    \o props.body_text_size
    \o <<";\n", "    line-height: 1.6;\n", "}\n", "\n", "li {\n",
           "    margin: 5px 0;\n", "}\n", "\n", "table {\n",
           "    border-collapse: collapse;\n", "    width: 100%;\n",
           "    margin: 20px 0;\n", "    font-size: 10pt;\n", "    border-radius: 8px;\n",
           "    overflow: hidden;\n", "}\n", "\n", "th {\n", "    background: ">>
    \o props.table_header_bg
    \o <<";\n", "    color: white;\n", "    padding: 14px;\n",
           "    text-align: left;\n", "    font-weight: 600;\n", "}\n", "\n", "td {\n",
           "    padding: 12px;\n", "    border: 1px solid ">>
    \o code_border
    \o <<";\n", "}\n", "\n", "tr:nth-child(even) td {\n", "    background-color: ">>
    \o table_alt_row
    \o <<";\n", "}\n", "\n", "code {\n", "    background: ">>
    \o props.code_bg_color
    \o <<";\n", "    padding: 4px 8px;\n", "    border-radius: 3px;\n",
           "    font-family: 'Courier New', monospace;\n", "    font-size: 10pt;\n",
           "    border: 1px solid ">>
    \o code_border
    \o <<";\n", "}\n", "\n", "pre {\n", "    background: ">>
    \o props.code_bg_color
    \o <<";\n", "    border: 1px solid ">>
    \o code_border
    \o <<";\n", "    border-left: 5px solid ">>
    \o props.accent_color
    \o <<";\n", "    border-radius: 5px;\n", "    padding: 18px;\n",
           "    overflow-x: auto;\n", "    margin: 15px 0;\n", "    font-size: 10pt;\n",
           "}\n", "\n", "pre code {\n", "    background: none;\n", "    padding: 0;\n",
           "    border: none;\n", "}\n", "\n", "blockquote {\n",
           "    border-left: 5px solid ">>
    \o props.accent_color
    \o <<";\n", "    padding-left: 2em;\n", "    margin: 15px 0;\n",
           "    font-style: italic;\n", "    background: ">>
    \o props.code_bg_color
    \o <<";\n", "    padding: 18px 18px 18px 2em;\n", "    border-radius: 5px;\n",
           "}\n", "\n", "a {\n", "    color: ">>
    \o props.accent_color
    \o <<";\n", "    text-decoration: none;\n", "    font-weight: 500;\n", "}\n", "\n",
           "a:hover {\n", "    color: ">>
    \o hover_color
    \o <<";\n", "    text-decoration: underline;\n", "}\n", "\n", "hr {\n",
           "    border: none;\n", "    height: 2px;\n", "    background: ">>
    \o props.accent_color
    \o <<";\n", "    margin: 25px 0;\n", "}\n", "\n", "img {\n",
           "    max-width: 100%;\n", "    height: auto;\n", "    border-radius: 8px;\n",
           "    border: 2px solid ">>
    \o code_border
    \o <<";\n", "}\n", "\n", ".page-break {\n", "    page-break-after: always;\n",
           "    break-after: page;\n", "    height: 0;\n", "    margin: 2cm 0;\n",
           "    padding: 0;\n", "    border: none;\n", "}\n">>

generate_css_from_properties(props) ==
    css_template(props, suggest_darker(props.accent_color, 15),
                 suggest_lighter(props.background_color, 5),
                 suggest_darker(props.code_bg_color, 10))

(***************************************************************************)
(* The wizard as a state machine: every run of run_theme_wizard is a       *)
(* process that blocks in input(), and one step takes it from one input()  *)
(* (or file operation) to the next.                                        *)
(***************************************************************************)
Runs == {1, 2}

VARIABLES
    pc,          \* where each run is blocked: prompt, override, confirm, open, write, done
    field,       \* index in FieldKeys of the property being prompted
    props,       \* the props dictionary of each run
    overridden,  \* keys accepted by answering y to the override question
    last,        \* the line the last step of each run read, and where it read it
    out,         \* what the last step of each run printed
    summary,     \* the verdict display_summary printed
    css,         \* css_content, empty until generated
    status,      \* running, returned, exit0, exit1 or uncaught
    raised,      \* the exception that ended the run
    writes,      \* how often each run opened a theme file for writing
    fault,       \* the storage fault the save of each run met
    cwd_under,   \* whether the themes directory lies below the run's cwd
    themes,      \* the themes directory: name -> content of <name>.css
    call         \* a call of a pure function: its arguments and its result

wizard_vars == <<pc, field, props, overridden, last, out, summary, css, status,
                 raised, writes, fault, cwd_under, themes>>

vars == <<wizard_vars, call>>

list_available_themes == DOMAIN themes

EmptyDict == [k \in {} |-> <<>>]

NoLine == [at |-> "none", field |-> 0, line |-> <<>>]

ExistingThemes == [n \in {<<"d", "a", "r", "k">>} |-> <<"body { color: white; }\n">>]

\* The local state of a run, as the functions below transform it.
Local(r) ==
    [pc |-> pc[r], field |-> field[r], props |-> props[r],
     overridden |-> overridden[r], out |-> out[r], summary |-> summary[r],
     css |-> css[r], status |-> status[r], raised |-> raised[r]]

Exit(l, exception, handled) ==
    [l EXCEPT !.raised = exception, !.status = handled.status, !.out = handled.out]

Raise(l, exception) == Exit(l, exception, run_theme_wizard_except(exception))

\* The field is accepted: go on to the next one, or return props and show
\* the summary.
Advance(l) ==
    IF l.field < NumFields
    THEN [l EXCEPT !.pc = "prompt", !.field = l.field + 1]
    ELSE [l EXCEPT !.pc = "confirm", !.summary = display_summary(l.props)]

AfterCheck(l, check) ==
    IF check.raised # "none" THEN Raise(l, check.raised)
    ELSE IF check.ask THEN [l EXCEPT !.pc = "override", !.out = "Contrast warning"]
    ELSE Advance(l)

\* A check that always compares against the default background.
AfterStore_default_background(l, key) ==
    IF key \in ContrastChecked
    THEN AfterCheck(l, check_contrast_and_warn(l.props[key], FieldDefault[2]))
    ELSE Advance(l)

AfterStore(l, key) ==
    IF key \in ContrastChecked
    THEN AfterCheck(l, check_contrast_and_warn(l.props[key], l.props.background_color))
    ELSE Advance(l)

AfterPrompt(l, key, got) ==
    IF got.returned
    THEN AfterStore([l EXCEPT !.props = SetItem(l.props, key, StoredValue(key, got.value)),
                              !.out = IF key = "name" THEN "Name available" ELSE "Using"],
                    key)
    ELSE [l EXCEPT !.out = got.err]

\* prompt_theme_properties from the input() of the current field to the next
\* input().
prompt_theme_properties(l, line, existing_themes) ==
    AfterPrompt(l, FieldKeys[l.field],
                prompt_with_validation(FieldDefault[l.field], FieldValidator[l.field],
                                       FieldAllowEmpty[l.field], line, existing_themes))

\* The loop of a contrast-checked field after the override question.
override_answer(l, line) ==
    IF check_contrast_and_warn_answer(line)
    THEN Advance([l EXCEPT !.overridden = @ \cup {FieldKeys[l.field]}, !.out = "none"])
    ELSE [l EXCEPT !.pc = "prompt", !.out = "none"]

\* A confirmation that goes on to save whatever the answer was.
ConfirmResponse_any_answer(l, response) ==
    [l EXCEPT !.pc = "open", !.css = generate_css_from_properties(l.props),
              !.out = "Generating theme"]

ConfirmResponse(l, response) ==
    IF response # <<>> /\ response # <<"y">>
    THEN [l EXCEPT !.pc = "done", !.status = "returned",
                   !.out = "Theme creation cancelled."]
    ELSE [l EXCEPT !.pc = "open", !.css = generate_css_from_properties(l.props),
                   !.out = "Generating theme"]

\* run_theme_wizard from "Create theme?" to the call of save_theme.
confirm_answer(l, line) == ConfirmResponse(l, lower(strip(line)))

SetLocal(r, l) ==
    /\ pc' = [pc EXCEPT ![r] = l.pc]
    /\ field' = [field EXCEPT ![r] = l.field]
    /\ props' = [props EXCEPT ![r] = l.props]
    /\ overridden' = [overridden EXCEPT ![r] = l.overridden]
    /\ out' = [out EXCEPT ![r] = l.out]
    /\ summary' = [summary EXCEPT ![r] = l.summary]
    /\ css' = [css EXCEPT ![r] = l.css]
    /\ status' = [status EXCEPT ![r] = l.status]
    /\ raised' = [raised EXCEPT ![r] = l.raised]

AtInput(r) == status[r] = "running" /\ pc[r] \in {"prompt", "override", "confirm"}

\* The operator answers a property prompt or the override question.
PromptInput(r, T) ==
    /\ status[r] = "running"
    /\ pc[r] \in {"prompt", "override"}
    /\ \E line \in (IF pc[r] = "prompt" THEN T.prompt[field[r]] ELSE T.override) :
          /\ SetLocal(r, IF pc[r] = "prompt"
                         THEN prompt_theme_properties(Local(r), line, list_available_themes)
                         ELSE override_answer(Local(r), line))
          /\ last' = [last EXCEPT ![r] = [at |-> pc[r], field |-> field[r], line |-> line]]
    /\ UNCHANGED <<writes, fault, cwd_under, themes, call>>

\* The operator answers "Create theme? [Y/n]".
ConfirmInput(r, T) ==
    /\ status[r] = "running"
    /\ pc[r] = "confirm"
    /\ \E line \in T.confirm :
          /\ SetLocal(r, confirm_answer(Local(r), line))
          /\ last' = [last EXCEPT ![r] = [at |-> pc[r], field |-> field[r], line |-> line]]
    /\ UNCHANGED <<writes, fault, cwd_under, themes, call>>

\* input() raises instead of returning: Ctrl-C, or end of input.
InputRaises(r) ==
    /\ AtInput(r)
    /\ \E exception \in {"KeyboardInterrupt", "EOFError"} :
          SetLocal(r, Raise(Local(r), exception))
    /\ last' = [last EXCEPT ![r] = NoLine]
    /\ UNCHANGED <<writes, fault, cwd_under, themes, call>>

\* save_theme: open(theme_path, "w").
SaveOpen(r) ==
    /\ status[r] = "running"
    /\ pc[r] = "open"
    /\ \E f \in {"none", "PermissionError"} :
          /\ fault' = [fault EXCEPT ![r] = f]
          /\ IF save_theme_open(props[r].name \in DOMAIN themes, f) = "opened"
             THEN /\ themes' = SetItem(themes, props[r].name, <<>>)
                  /\ writes' = [writes EXCEPT ![r] = @ + 1]
                  /\ SetLocal(r, [Local(r) EXCEPT !.pc = "write"])
             ELSE /\ SetLocal(r, Raise(Local(r), "IOError"))
                  /\ UNCHANGED <<themes, writes>>
    /\ last' = [last EXCEPT ![r] = NoLine]
    /\ UNCHANGED <<cwd_under, call>>

\* run_theme_wizard after save_theme returned: the first message needs the
\* path relative to the current directory, and relative_to raises ValueError
\* when the themes directory is not below it.
AfterSave(l, under) ==
    IF under
    THEN [l EXCEPT !.pc = "done", !.status = "returned", !.out = "CSS file created"]
    ELSE Raise(l, "ValueError")

\* save_theme: f.write(css_content) and the close that flushes it; a storage
\* fault leaves only part of the text in the file.
SaveWrite(r) ==
    /\ status[r] = "running"
    /\ pc[r] = "write"
    /\ \E written \in {0, Len(css[r]) \div 2, Len(css[r])} :
          /\ themes' = [themes EXCEPT ![props[r].name] =
                            save_theme_write(@, css[r], written)]
          /\ fault' = [fault EXCEPT ![r] = IF written < Len(css[r]) THEN "OSError"
                                           ELSE "none"]
          /\ SetLocal(r, IF written < Len(css[r]) THEN Raise(Local(r), "IOError")
                         ELSE AfterSave(Local(r), cwd_under[r]))
    /\ last' = [last EXCEPT ![r] = NoLine]
    /\ UNCHANGED <<writes, cwd_under, call>>

Step(r, T) ==
    \/ PromptInput(r, T)
    \/ ConfirmInput(r, T)
    \/ InputRaises(r)
    \/ SaveOpen(r)
    \/ SaveWrite(r)

\* The lines the operator types at each prompt.
Typed ==
    [prompt |->
        << {<<>>, <<"m", "y", "-", "t", "_", "2">>, <<"t", "h", "é", "m", "e">>, <<"m", "y", " ", "t">>, <<"d", "a", "r", "k">>},
           {<<>>, <<" ", "#", "F", "F", "F", " ">>, <<"b", "l", "a", "c", "k">>, <<"#", "-", "f", "-", "f", "-", "f">>, <<"#", "1", "2">>},
           {<<>>, <<"#", "c", "c", "c", "c", "c", "c">>, <<"c", "c", "c">>},
           {<<>>, <<"G", "e", "o", "r", "g", "i", "a">>},
           {<<>>, <<"1", "2">>, <<"n", "a", "n">>, <<"0">>, <<"1", "2", "p", "x">>},
           {<<>>, <<"#", "c", "c", "c">>},
           {<<>>, <<"#", "C", "C", "C">>, <<"#", "c", "c">>},
           {<<>>, <<"b", "l", "u", "e">>, <<"#", "c", "c", "c">>},
           {<<>>, <<"#", "-", "f", "-", "f", "-", "f">>, <<"#", "g", "g", "g">>},
           {<<>>, <<"n", "a", "v", "y">>, <<"r", "g", "b", "(", "0", ",", "0", ",", "0", ")">>,
            <<"h", "s", "l", "(", "2", "1", "0", ",", " ", "5", "0", "%", ",", " ", "2", "0", "%", ")">>} >>,
     override |-> {<<>>, <<"y">>, <<"n">>},
     confirm |-> {<<>>, <<"y">>, <<" ", "Y">>, <<"n">>, <<"y", "e", "s">>}]

RaceTyped ==
    [prompt |->
        << {<<"m", "y", "-", "t", "_", "2">>, <<"d", "a", "r", "k">>},
           {<<>>},
           {<<>>},
           {<<>>, <<"G", "e", "o", "r", "g", "i", "a">>},
           {<<>>},
           {<<>>},
           {<<>>},
           {<<"b", "l", "u", "e">>},
           {<<>>},
           {<<>>} >>,
     override |-> {<<"y">>},
     confirm |-> {<<>>, <<"n">>}]

NoCall == [fn |-> "none", arg |-> <<>>, listing |-> {}, done |-> FALSE, ret |-> "none"]

InitRun(started) ==
    /\ pc = [r \in Runs |-> "prompt"]
    /\ field = [r \in Runs |-> 1]
    /\ props = [r \in Runs |-> EmptyDict]
    /\ overridden = [r \in Runs |-> {}]
    /\ last = [r \in Runs |-> NoLine]
    /\ out = [r \in Runs |-> "none"]
    /\ summary = [r \in Runs |-> "none"]
    /\ css = [r \in Runs |-> <<>>]
    /\ status = [r \in Runs |-> IF r \in started THEN "running" ELSE "not started"]
    /\ raised = [r \in Runs |-> "none"]
    /\ writes = [r \in Runs |-> 0]
    /\ fault = [r \in Runs |-> "none"]
    /\ cwd_under \in [Runs -> BOOLEAN]
    /\ \A r \in Runs \ started : cwd_under[r]
    /\ themes = ExistingThemes

\* One operator runs the wizard.
Init == InitRun({1}) /\ call = NoCall

Next == Step(1, Typed)

Spec == Init /\ [][Next]_vars

\* Two operators run it at the same time on the same themes directory.
InitRace == InitRun(Runs) /\ call = NoCall

NextRace == \E r \in Runs : Step(r, RaceTyped)

SpecRace == InitRace /\ [][NextRace]_vars

(***************************************************************************)
(* validate_theme_name as a function: every name of at most MaxNameLen     *)
(* characters of NameAlphabet, against the listings of NameListings.       *)
(***************************************************************************)
MaxNameLen == 2

NameAlphabet == {"d", "D", "Z", "7", "-", "_", " ", "/", "\\", ".", "é"}

RECURSIVE Words(_, _)
Words(alphabet, n) ==
    IF n = 0 THEN {<<>>}
    ELSE Words(alphabet, n - 1)
            \cup {Append(w, c) : w \in Words(alphabet, n - 1), c \in alphabet}

NameListings == {{}, {<<"d">>}, {<<"d">>, <<"Z", "7">>}}

InitName ==
    /\ InitRun({})
    /\ \E name \in Words(NameAlphabet, MaxNameLen), listing \in NameListings :
          call = [fn |-> "validate_theme_name", arg |-> name, listing |-> listing,
                  done |-> FALSE, ret |-> "none"]

ValidateName ==
    /\ call.fn = "validate_theme_name"
    /\ ~call.done
    /\ call' = [call EXCEPT !.done = TRUE,
                            !.ret = validate_theme_name(call.arg, call.listing)]
    /\ UNCHANGED wizard_vars

NextName == ValidateName

SpecName == InitName /\ [][NextName]_vars

(***************************************************************************)
(* The functions of color_utils.py and the helpers of theme_builder.py     *)
(* called on their own: `call` holds one call, and one action per function *)
(* returns from it.                                                        *)
(***************************************************************************)
NewCall(fn, arg) == [fn |-> fn, arg |-> arg, listing |-> {}, done |-> FALSE, ret |-> "none"]

Pending(fn) == call.fn = fn /\ ~call.done

Returns(value) ==
    /\ call' = [call EXCEPT !.done = TRUE, !.ret = value]
    /\ UNCHANGED wizard_vars

\* Foregrounds and backgrounds, and the targets 3:1, 4.5:1 (the default) and
\* 7:1 in tenths.
ColorSamples ==
    {<<"#", "0", "0", "0", "0", "0", "0">>,
     <<"#", "f", "f", "f", "f", "f", "f">>,
     <<"#", "c", "c", "c", "c", "c", "c">>,
     <<"#", "3", "3", "3", "3", "3", "3">>,
     <<"#", "6", "6", "6", "6", "6", "6">>,
     <<"#", "f", "e", "f", "e", "f", "e">>,
     <<"#", "8", "0", "8", "0", "8", "0">>,
     <<"#", "2", "c", "3", "e", "5", "0">>,
     <<"#", "6", "6", "7", "e", "e", "a">>,
     <<"#", "F", "F", "F">>,
     <<"r", "e", "d">>}

TargetSamples == {30, 45, 70}

SuggestCalls ==
    {NewCall("suggest_accessible_color", <<fg, bg, target>>) :
        fg \in ColorSamples, bg \in ColorSamples, target \in TargetSamples}

CallSuggestAccessibleColor ==
    /\ Pending("suggest_accessible_color")
    /\ Returns(suggest_accessible_color(call.arg[1], call.arg[2], call.arg[3]))

\* Literals for parse_color: "#" and at most MaxHexLen characters of
\* HexAlphabet, "#" and three of HexPairs, and keywords, HSL triples and
\* other text.
MaxHexLen == 3

HexAlphabet == {"0", "9", "a", "f", "F", "g", "-", "+", " ", "#"}

HexPairs == {<<"0", "0">>, <<"f", "f">>, <<"7", "F">>, <<"a", "9">>, <<"-", "f">>, <<" ", "f">>, <<"+", "f">>, <<"0", "g">>}

OtherLiterals ==
    {<<"#", "#", "f", "f", "f">>, <<"#", "#", "#", "0", "a", "0", "B", "0", "c">>,
     <<"w", "h", "i", "t", "e">>,
     <<"B", "l", "a", "c", "k", " ">>,
     <<" ", "N", "A", "V", "Y">>,
     <<"g", "r", "e", "y">>,
     <<"w", "h", "i", "t">>,
     <<"o", "r", "a", "n", "g", "e">>,
     <<"t", "r", "a", "n", "s", "p", "a", "r", "e", "n", "t">>,
     <<"r", "g", "b", "(", "0", ",", "0", ",", "0", ")">>,
     <<>>,
     <<"f", "f", "f">>,
     <<"f", "f", "f", "f", "f", "f">>,
     <<"h", "s", "l", "(", "2", "1", "0", ",", " ", "5", "0", "%", ",", " ", "2", "0", "%", ")">>,
     <<"h", "s", "l", "(", "0", ",", "0", "%", ",", "0", "%", ")">>,
     <<"h", "s", "l", "(", "3", "6", "0", ",", "1", "0", "0", "%", ",", "1", "0", "0", "%", ")">>,
     <<"h", "s", "l", "(", " ", "1", "2", "0", " ", ",", " ", "1", "0", "0", "%", " ", ",", " ", "5", "0", "%", " ", ")">>,
     <<"H", "S", "L", "(", "1", "2", "0", ",", "1", "0", "0", "%", ",", "5", "0", "%", ")">>,
     <<"h", "s", "l", "(", "3", "6", "1", ",", "0", "%", ",", "0", "%", ")">>,
     <<"h", "s", "l", "(", "0", ",", "1", "0", "1", "%", ",", "0", "%", ")">>,
     <<"h", "s", "l", "(", "0", ",", "0", "%", ",", "1", "0", "1", "%", ")">>,
     <<"h", "s", "l", "(", "0", ",", "0", "%", ",", "0", "%", ")", "x">>,
     <<"h", "s", "l", "(", "0", ",", "0", "%", ",", "0", "%", ")", " ", ")">>,
     <<"h", "s", "l", "(", "0", ",", " ", "0", ",", " ", "0", ")">>,
     <<"h", "s", "l", "(", "-", "1", ",", "0", "%", ",", "0", "%", ")">>,
     <<"h", "s", "l", "(", "1", ".", "5", ",", "0", "%", ",", "0", "%", ")">>,
     <<"h", "s", "l", "a", "(", "0", ",", "0", "%", ",", "0", "%", ")">>,
     <<"h", "s", "l", "(", "0", ",", "0", "%", ",", "0", "%">>,
     <<"h", "s", "l", "(", "0", ",", " ", "0", "%", ",", " ", "0", "%", ")">>,
     <<"h", "s", "l", "(", "0", ",", " ", "0", "%", ",", " ", "1", "%", ")">>,
     <<"h", "s", "l", "(", "0", ",", " ", "0", "%", ",", " ", "5", "0", "%", ")">>,
     <<"h", "s", "l", "(", "0", ",", " ", "1", "0", "0", "%", ",", " ", "5", "0", "%", ")">>,
     <<"h", "s", "l", "(", "0", ",", " ", "5", "0", "%", ",", " ", "2", "0", "%", ")">>,
     <<"h", "s", "l", "(", "0", ",", " ", "1", "0", "0", "%", ",", " ", "1", "0", "0", "%", ")">>,
     <<"h", "s", "l", "(", "0", ",", " ", "1", "0", "0", "%", ",", " ", "2", "5", "%", ")">>,
     <<"h", "s", "l", "(", "6", "0", ",", " ", "0", "%", ",", " ", "0", "%", ")">>,
     <<"h", "s", "l", "(", "6", "0", ",", " ", "0", "%", ",", " ", "1", "%", ")">>,
     <<"h", "s", "l", "(", "6", "0", ",", " ", "0", "%", ",", " ", "5", "0", "%", ")">>,
     <<"h", "s", "l", "(", "6", "0", ",", " ", "1", "0", "0", "%", ",", " ", "5", "0", "%", ")">>,
     <<"h", "s", "l", "(", "6", "0", ",", " ", "5", "0", "%", ",", " ", "2", "0", "%", ")">>,
     <<"h", "s", "l", "(", "6", "0", ",", " ", "1", "0", "0", "%", ",", " ", "1", "0", "0", "%", ")">>,
     <<"h", "s", "l", "(", "6", "0", ",", " ", "1", "0", "0", "%", ",", " ", "2", "5", "%", ")">>,
     <<"h", "s", "l", "(", "1", "2", "0", ",", " ", "0", "%", ",", " ", "0", "%", ")">>,
     <<"h", "s", "l", "(", "1", "2", "0", ",", " ", "0", "%", ",", " ", "1", "%", ")">>,
     <<"h", "s", "l", "(", "1", "2", "0", ",", " ", "0", "%", ",", " ", "5", "0", "%", ")">>,
     <<"h", "s", "l", "(", "1", "2", "0", ",", " ", "1", "0", "0", "%", ",", " ", "5", "0", "%", ")">>,
     <<"h", "s", "l", "(", "1", "2", "0", ",", " ", "5", "0", "%", ",", " ", "2", "0", "%", ")">>,
     <<"h", "s", "l", "(", "1", "2", "0", ",", " ", "1", "0", "0", "%", ",", " ", "1", "0", "0", "%", ")">>,
     <<"h", "s", "l", "(", "1", "2", "0", ",", " ", "1", "0", "0", "%", ",", " ", "2", "5", "%", ")">>,
     <<"h", "s", "l", "(", "2", "1", "0", ",", " ", "0", "%", ",", " ", "0", "%", ")">>,
     <<"h", "s", "l", "(", "2", "1", "0", ",", " ", "0", "%", ",", " ", "1", "%", ")">>,
     <<"h", "s", "l", "(", "2", "1", "0", ",", " ", "0", "%", ",", " ", "5", "0", "%", ")">>,
     <<"h", "s", "l", "(", "2", "1", "0", ",", " ", "1", "0", "0", "%", ",", " ", "5", "0", "%", ")">>,
     <<"h", "s", "l", "(", "2", "1", "0", ",", " ", "1", "0", "0", "%", ",", " ", "1", "0", "0", "%", ")">>,
     <<"h", "s", "l", "(", "2", "1", "0", ",", " ", "1", "0", "0", "%", ",", " ", "2", "5", "%", ")">>,
     <<"h", "s", "l", "(", "2", "4", "0", ",", " ", "0", "%", ",", " ", "0", "%", ")">>,
     <<"h", "s", "l", "(", "2", "4", "0", ",", " ", "0", "%", ",", " ", "1", "%", ")">>,
     <<"h", "s", "l", "(", "2", "4", "0", ",", " ", "0", "%", ",", " ", "5", "0", "%", ")">>,
     <<"h", "s", "l", "(", "2", "4", "0", ",", " ", "1", "0", "0", "%", ",", " ", "5", "0", "%", ")">>,
     <<"h", "s", "l", "(", "2", "4", "0", ",", " ", "5", "0", "%", ",", " ", "2", "0", "%", ")">>,
     <<"h", "s", "l", "(", "2", "4", "0", ",", " ", "1", "0", "0", "%", ",", " ", "1", "0", "0", "%", ")">>,
     <<"h", "s", "l", "(", "2", "4", "0", ",", " ", "1", "0", "0", "%", ",", " ", "2", "5", "%", ")">>,
     <<"h", "s", "l", "(", "3", "0", "0", ",", " ", "0", "%", ",", " ", "0", "%", ")">>,
     <<"h", "s", "l", "(", "3", "0", "0", ",", " ", "0", "%", ",", " ", "1", "%", ")">>,
     <<"h", "s", "l", "(", "3", "0", "0", ",", " ", "0", "%", ",", " ", "5", "0", "%", ")">>,
     <<"h", "s", "l", "(", "3", "0", "0", ",", " ", "1", "0", "0", "%", ",", " ", "5", "0", "%", ")">>,
     <<"h", "s", "l", "(", "3", "0", "0", ",", " ", "5", "0", "%", ",", " ", "2", "0", "%", ")">>,
     <<"h", "s", "l", "(", "3", "0", "0", ",", " ", "1", "0", "0", "%", ",", " ", "1", "0", "0", "%", ")">>,
     <<"h", "s", "l", "(", "3", "0", "0", ",", " ", "1", "0", "0", "%", ",", " ", "2", "5", "%", ")">>,
     <<"h", "s", "l", "(", "3", "6", "0", ",", " ", "0", "%", ",", " ", "0", "%", ")">>,
     <<"h", "s", "l", "(", "3", "6", "0", ",", " ", "0", "%", ",", " ", "1", "%", ")">>,
     <<"h", "s", "l", "(", "3", "6", "0", ",", " ", "0", "%", ",", " ", "5", "0", "%", ")">>,
     <<"h", "s", "l", "(", "3", "6", "0", ",", " ", "1", "0", "0", "%", ",", " ", "5", "0", "%", ")">>,
     <<"h", "s", "l", "(", "3", "6", "0", ",", " ", "5", "0", "%", ",", " ", "2", "0", "%", ")">>,
     <<"h", "s", "l", "(", "3", "6", "0", ",", " ", "1", "0", "0", "%", ",", " ", "1", "0", "0", "%", ")">>,
     <<"h", "s", "l", "(", "3", "6", "0", ",", " ", "1", "0", "0", "%", ",", " ", "2", "5", "%", ")">>}

ColorLiterals ==
    {<<"#">> \o w : w \in Words(HexAlphabet, MaxHexLen)}
        \cup {<<"#">> \o p \o q \o r : p \in HexPairs, q \in HexPairs, r \in HexPairs}
        \cup OtherLiterals

ParseCalls == {NewCall("parse_color", literal) : literal \in ColorLiterals}

CallParseColor ==
    /\ Pending("parse_color")
    /\ Returns(parse_color(call.arg))

\* Triples for rgb_to_hex: every value of a channel in the first place.
RgbCalls ==
    {NewCall("rgb_to_hex", <<r, g, b>>) : r \in 0..255, g \in {0, 171}, b \in {15, 255}}

CallRgbToHex ==
    /\ Pending("rgb_to_hex")
    /\ Returns(rgb_to_hex(call.arg))

\* Property sets as prompt_theme_properties returns them: on white, "#767676"
\* is just above 4.5:1 and "#777777" just below.
SummaryForegrounds ==
    {<<"#", "0", "0", "0", "0", "0", "0">>, <<"#", "f", "f", "f", "f", "f", "f">>,
     <<"#", "7", "6", "7", "6", "7", "6">>, <<"#", "7", "7", "7", "7", "7", "7">>}

SummaryCalls ==
    {NewCall("display_summary",
             [name |-> <<"t">>, background_color |-> bg, text_color |-> text,
              font_family |-> <<"A", "r", "i", "a", "l">>,
              body_text_size |-> <<"1", "1", "p", "t">>, h1_color |-> h1,
              h2_h6_color |-> h2, accent_color |-> accent, code_bg_color |-> bg,
              table_header_bg |-> accent]) :
        bg \in {<<"#", "f", "f", "f", "f", "f", "f">>, <<"#", "0", "0", "0", "0", "0", "0">>},
        text \in SummaryForegrounds, h1 \in SummaryForegrounds,
        h2 \in SummaryForegrounds, accent \in SummaryForegrounds}

CallDisplaySummary ==
    /\ Pending("display_summary")
    /\ Returns(display_summary(call.arg))

\* Sizes for validate_font_size: every word of at most MaxSizeLen characters
\* over the alphabet, and longer ones around the limits and the suffix.
MaxSizeLen == 3

SizeAlphabet == {"1", "0", ".", "-", "p", "t", " ", "n", "a"}

OtherSizes ==
    {<<"1", "0", "0">>, <<"1", "0", "0", ".", "5">>,
     <<"1", "0", "0", ".", "0", "p", "t">>, <<"1", "0", "1">>,
     <<"1", "5", "0">>, <<"0", ".", "0">>, <<"0", ".", "5", "p", "t">>,
     <<"1", "1", "p", "t">>, <<"1", "6", ".", "5", "p", "t">>,
     <<"1", "2", "p", "x">>, <<"1", "2", " ", "p", "t">>,
     <<" ", " ", "1", "2", "p", "t", " ", " ">>,
     <<"1", "2", "p", "t", "p", "t">>, <<"a", "b", "c">>, <<"i", "n", "f">>,
     <<"I", "n", "f", "i", "n", "i", "t", "y">>, <<"N", "a", "N">>,
     <<"+", "n", "a", "n">>, <<"n", "a", "n", "p", "t">>,
     <<"-", "n", "a", "n">>}

SizeCalls ==
    {NewCall("validate_font_size", size) :
        size \in Words(SizeAlphabet, MaxSizeLen) \cup OtherSizes}

\* The validator, and for an accepted size the value the wizard stores.
CallValidateFontSize ==
    /\ Pending("validate_font_size")
    /\ Returns([verdict |-> validate_font_size(call.arg),
                stored |-> StoredValue("body_text_size", strip(call.arg))])

(***************************************************************************)
(* cli.py: main.  An argument is a string of characters; the parser takes  *)
(* one that starts with "-" for an option.                                  *)
(***************************************************************************)
\* parser.parse_args() for the store_true options of lines 74-102 and the
\* positional "input" (nargs="*"): the input is the first run of consecutive
\* positionals; an option the parser does not know, and a positional after a
\* later option, are unrecognized arguments.
parse_args(argv) ==
    LET files == {i \in DOMAIN argv : ~startswith(argv[i], <<"-">>)}
        taken == {i \in files : \A j \in files : j < i => (j..i) \subseteq files}
    IN  [error |-> \/ \E i \in DOMAIN argv \ files :
                         argv[i] \notin {<<"-", "-", "t", "h", "e", "m", "e", "-", "l", "i", "s", "t">>, <<"-", "-", "m", "e", "r", "g", "e">>, <<"-", "-", "n", "o", "-", "a", "u", "t", "o", "-", "b", "r", "e", "a", "k">>}
                   \/ files # taken,
         theme_list |-> <<"-", "-", "t", "h", "e", "m", "e", "-", "l", "i", "s", "t">> \in Range(argv),
         merge |-> <<"-", "-", "m", "e", "r", "g", "e">> \in Range(argv),
         no_auto_break |-> <<"-", "-", "n", "o", "-", "a", "u", "t", "o", "-", "b", "r", "e", "a", "k">> \in Range(argv),
         input |-> SelectSeq(argv, LAMBDA a : ~startswith(a, <<"-">>))]

\* What main() called, in order, and the status the process exits with (0 for
\* a normal return, 2 from parser.error).  `raises` tells whether the
\* conversion that is called raises an Md2PdfError.
main(argv, raises) ==
    IF parse_args(argv).error THEN [calls |-> <<>>, exit |-> 2]
    ELSE IF parse_args(argv).theme_list
    THEN [calls |-> <<"display_themes">>, exit |-> 0]
    ELSE IF parse_args(argv).input = <<>> THEN [calls |-> <<>>, exit |-> 2]
    ELSE IF parse_args(argv).merge /\ Len(parse_args(argv).input) < 2
    THEN [calls |-> <<>>, exit |-> 1]
    ELSE [calls |-> <<IF parse_args(argv).merge THEN "convert_merge"
                      ELSE IF Len(parse_args(argv).input) > 1 THEN "convert_batch"
                      ELSE "convert_md_to_pdf">>,
          exit |-> IF raises THEN 1 ELSE 0]

\* Command lines of at most MaxArgs arguments.
MaxArgs == 3

MainCalls ==
    {NewCall("main", [argv |-> argv, raises |-> raises]) :
        argv \in Words({<<"-", "-", "c", "r", "e", "a", "t", "e", "-", "t", "h", "e", "m", "e">>,
                        <<"-", "-", "t", "h", "e", "m", "e", "-", "l", "i", "s", "t">>,
                        <<"-", "-", "m", "e", "r", "g", "e">>,
                        <<"-", "-", "n", "o", "-", "a", "u", "t", "o", "-", "b", "r", "e", "a", "k">>,
                        <<"a", ".", "m", "d">>, <<"b", ".", "m", "d">>}, MaxArgs),
        raises \in BOOLEAN}

CallMain ==
    /\ Pending("main")
    /\ Returns(main(call.arg.argv, call.arg.raises))

(***************************************************************************)
(* core.py: the conversions of several files.  A file is its name and the  *)
(* error its conversion meets: "InvalidInputError" and "OSError" while it   *)
(* is validated and read, "ConversionError" from convert_html_to_pdf, or    *)
(* "ok".                                                                    *)
(***************************************************************************)
\* A loop that a failing file ends.
RECURSIVE convert_batch_loop_until_failure(_, _)
convert_batch_loop_until_failure(input_files, done) ==
    IF input_files = <<>> THEN done
    ELSE IF Head(input_files).error # "ok"
    THEN [done EXCEPT !.attempted = Append(@, Head(input_files).name),
                      !.failed_files = Append(@, [input_file |-> Head(input_files).name,
                                                  error |-> Head(input_files).error])]
    ELSE convert_batch_loop_until_failure(
            Tail(input_files),
            [done EXCEPT !.attempted = Append(@, Head(input_files).name),
                         !.converted_files = Append(@, Head(input_files).name)])

\* The loop `for input_file in input_files` of convert_batch: the except
\* clauses record the failure and the loop goes on with the next file.
RECURSIVE convert_batch_loop(_, _)
convert_batch_loop(input_files, done) ==
    IF input_files = <<>> THEN done
    ELSE convert_batch_loop(
            Tail(input_files),
            [attempted |-> Append(done.attempted, Head(input_files).name),
             converted_files |->
                 IF Head(input_files).error = "ok"
                 THEN Append(done.converted_files, Head(input_files).name)
                 ELSE done.converted_files,
             failed_files |->
                 IF Head(input_files).error = "ok" THEN done.failed_files
                 ELSE Append(done.failed_files,
                             [input_file |-> Head(input_files).name,
                              error |-> IF Head(input_files).error = "OSError"
                                        THEN "System error"
                                        ELSE Head(input_files).error])])

\* `setup` is the error _setup_conversion_environment raises, or "ok"; `mkdir`
\* tells what creating the output directory does ("none": no --output-dir).
\* The first branch is the returns and the raise before the loop; `summary`
\* is set when the summary of the loop was printed.
convert_batch(input_files, setup, mkdir) ==
    IF input_files = <<>> \/ setup # "ok" \/ mkdir = "OSError"
    THEN [raised |-> IF input_files = <<>> THEN "none" ELSE IF setup # "ok" THEN setup ELSE "none",
          summary |-> FALSE,
          files |-> [attempted |-> <<>>, converted_files |-> <<>>, failed_files |-> <<>>]]
    ELSE [raised |-> "none",
          summary |-> TRUE,
          files |-> convert_batch_loop(input_files,
                                       [attempted |-> <<>>, converted_files |-> <<>>,
                                        failed_files |-> <<>>])]

\* html.escape(filename) of _merge_html_bodies: quote=True is the default.
RECURSIVE escape(_)
escape(s) ==
    IF s = <<>> THEN <<>>
    ELSE (CASE s[1] = "&" -> <<"&", "a", "m", "p", ";">>
            [] s[1] = "<" -> <<"&", "l", "t", ";">>
            [] s[1] = ">" -> <<"&", "g", "t", ";">>
            [] s[1] = "\"" -> <<"&", "q", "u", "o", "t", ";">>
            [] s[1] = "'" -> <<"&", "#", "x", "2", "7", ";">>
            [] OTHER -> <<s[1]>>) \o escape(Tail(s))

\* The merged body as the text "\n".join(merged_parts): the fixed pieces of
\* the template are one token each, a filename comes character by character
\* and a body as the tokens it is given as.  In the loop i < len(html_bodies) - 1
\* holds exactly when a document follows.
\* A loop that adds the page break after every document, the last included.
RECURSIVE _merge_html_bodies_break_after_each(_, _)
_merge_html_bodies_break_after_each(html_bodies, auto_break) ==
    IF html_bodies = <<>> THEN <<>>
    ELSE <<"<h1 class=\"document-section-header\">">>
            \o escape(Head(html_bodies).filename) \o <<"</h1>\n", "\n">>
            \o Head(html_bodies).html_body
            \o (IF auto_break
                THEN <<"\n", "<div class=\"page-break\"></div>\n">> ELSE <<>>)
            \o (IF Tail(html_bodies) # <<>>
                THEN <<"\n">> \o _merge_html_bodies_break_after_each(Tail(html_bodies),
                                                                     auto_break)
                ELSE <<>>)

RECURSIVE _merge_html_bodies(_, _)
_merge_html_bodies(html_bodies, auto_break) ==
    IF html_bodies = <<>> THEN <<>>
    ELSE <<"<h1 class=\"document-section-header\">">>
            \o escape(Head(html_bodies).filename) \o <<"</h1>\n", "\n">>
            \o Head(html_bodies).html_body
            \o (IF auto_break /\ Tail(html_bodies) # <<>>
                THEN <<"\n", "<div class=\"page-break\"></div>\n">> ELSE <<>>)
            \o (IF Tail(html_bodies) # <<>>
                THEN <<"\n">> \o _merge_html_bodies(Tail(html_bodies), auto_break)
                ELSE <<>>)

CallMergeHtmlBodies ==
    /\ Pending("_merge_html_bodies")
    /\ Returns(_merge_html_bodies(call.arg.html_bodies, call.arg.auto_break))

\* A loop that puts each processed file in front of the ones before it.
RECURSIVE convert_merge_loop_newest_first(_, _)
convert_merge_loop_newest_first(input_files, done) ==
    IF input_files = <<>> THEN done
    ELSE convert_merge_loop_newest_first(
            Tail(input_files),
            [attempted |-> Append(done.attempted, Head(input_files).name),
             html_bodies |->
                 IF Head(input_files).error = "ok"
                 THEN <<[filename |-> Head(input_files).name,
                         html_body |-> Head(input_files).html_body]>> \o done.html_bodies
                 ELSE done.html_bodies,
             failed_files |->
                 IF Head(input_files).error = "ok" THEN done.failed_files
                 ELSE Append(done.failed_files,
                             [input_file |-> Head(input_files).name,
                              error |-> Head(input_files).error])])

\* The loop `for input_file in input_files` of convert_merge: a file that is
\* processed adds (input_path.name, html_body), a file that fails is recorded
\* and skipped.
RECURSIVE convert_merge_loop(_, _)
convert_merge_loop(input_files, done) ==
    IF input_files = <<>> THEN done
    ELSE convert_merge_loop(
            Tail(input_files),
            [attempted |-> Append(done.attempted, Head(input_files).name),
             html_bodies |->
                 IF Head(input_files).error = "ok"
                 THEN Append(done.html_bodies,
                             [filename |-> Head(input_files).name,
                              html_body |-> Head(input_files).html_body])
                 ELSE done.html_bodies,
             failed_files |->
                 IF Head(input_files).error = "ok" THEN done.failed_files
                 ELSE Append(done.failed_files,
                             [input_file |-> Head(input_files).name,
                              error |-> IF Head(input_files).error = "OSError"
                                        THEN "System error"
                                        ELSE Head(input_files).error])])

\* `requests` are the documents handed to convert_html_to_pdf and `engine` is
\* the error it raises, or "ok"; `summary` is set when the merge summary was
\* printed.
convert_merge(input_files, setup, auto_break, engine) ==
    IF input_files = <<>> \/ setup # "ok"
    THEN [raised |-> IF input_files = <<>> THEN "none" ELSE setup,
          summary |-> FALSE,
          files |-> [attempted |-> <<>>, html_bodies |-> <<>>, failed_files |-> <<>>],
          requests |-> <<>>]
    ELSE LET files == convert_merge_loop(input_files,
                                         [attempted |-> <<>>, html_bodies |-> <<>>,
                                          failed_files |-> <<>>])
         IN  IF files.html_bodies = <<>>
             THEN [raised |-> "none", summary |-> FALSE, files |-> files,
                   requests |-> <<>>]
             ELSE [raised |-> IF engine = "ok" THEN "none" ELSE engine,
                   summary |-> engine = "ok",
                   files |-> files,
                   requests |-> <<[title |-> "Merged Document",
                                   body_html |-> _merge_html_bodies(files.html_bodies,
                                                                    auto_break),
                                   output_path |-> "merged_output.pdf"]>>]

CallConvertMerge ==
    /\ Pending("convert_merge")
    /\ Returns(convert_merge(call.arg.input_files, call.arg.setup,
                             call.arg.auto_break, call.arg.engine))

\* Lists of at most MaxFiles files or documents, a name possibly twice.
MaxFiles == 3

CoreCalls ==
    {NewCall("convert_batch", [input_files |-> input_files, setup |-> setup, mkdir |-> mkdir]) :
        input_files \in Words({[name |-> n, error |-> e] :
                                  n \in {"a.md", "b.md"},
                                  e \in {"ok", "InvalidInputError", "OSError",
                                         "ConversionError"}}, MaxFiles),
        setup \in {"ok", "ThemeNotFoundError"},
        mkdir \in {"none", "ok", "OSError"}}
    \cup
    {NewCall("convert_merge", [input_files |-> input_files, setup |-> setup,
                               auto_break |-> auto_break, engine |-> engine]) :
        input_files \in Words({[name |-> n, error |-> e, html_body |-> <<"<p>x</p>">>] :
                                  n \in {<<"a">>, <<"b", "&">>},
                                  e \in {"ok", "InvalidInputError", "OSError"}}, MaxFiles),
        setup \in {"ok", "ThemeNotFoundError"},
        auto_break \in BOOLEAN,
        engine \in {"ok", "ConversionError"}}
    \cup
    {NewCall("_merge_html_bodies", [html_bodies |-> html_bodies, auto_break |-> auto_break]) :
        html_bodies \in Words({[filename |-> n, html_body |-> b] :
                                  n \in {<<"a", ".", "m", "d">>, <<"<", "b", ">", "&">>,
                                         <<"'", "\"">>},
                                  b \in {<<"<p>x</p>">>,
                                         <<"<p>y</p>", "\n", "<div class=\"page-break\"></div>">>}},
                              MaxFiles),
        auto_break \in BOOLEAN}

CallConvertBatch ==
    /\ Pending("convert_batch")
    /\ Returns(convert_batch(call.arg.input_files, call.arg.setup, call.arg.mkdir))

\* Colours and every integer percentage for suggest_darker and
\* suggest_lighter; "#5aaab4" is (90, 170, 180) and "#fa6432" (250, 100, 50).
AdjustCalls ==
    {NewCall(fn, [color |-> color, percentage |-> percentage]) :
        fn \in {"suggest_darker", "suggest_lighter"},
        color \in {<<"#", "f", "f", "f", "f", "f", "f">>,
                   <<"#", "0", "0", "0", "0", "0", "0">>,
                   <<"#", "5", "a", "a", "a", "b", "4">>,
                   <<"#", "f", "a", "6", "4", "3", "2">>,
                   <<"#", "0", "a", "0", "f", "1", "9">>,
                   <<"#", "c", "8", "f", "f", "8", "0">>,
                   <<"#", "F", "F", "F">>,
                   <<"r", "e", "d">>},
        percentage \in 0..100}

CallSuggestDarker ==
    /\ Pending("suggest_darker")
    /\ Returns(suggest_darker(call.arg.color, call.arg.percentage))

CallSuggestLighter ==
    /\ Pending("suggest_lighter")
    /\ Returns(suggest_lighter(call.arg.color, call.arg.percentage))

InitCall ==
    /\ InitRun({})
    /\ call \in SuggestCalls \cup SummaryCalls \cup ParseCalls \cup RgbCalls
                 \cup SizeCalls \cup MainCalls \cup CoreCalls \cup AdjustCalls

NextCall ==
    \/ CallSuggestAccessibleColor
    \/ CallDisplaySummary
    \/ CallParseColor
    \/ CallRgbToHex
    \/ CallValidateFontSize
    \/ CallMain
    \/ CallConvertBatch
    \/ CallConvertMerge
    \/ CallMergeHtmlBodies
    \/ CallSuggestDarker
    \/ CallSuggestLighter

SpecCall == InitCall /\ [][NextCall]_vars

(***************************************************************************)
(* Properties of the wizard.  `last` holds the line a run has just read    *)
(* and the place where it read it, so a state in which last[r].at is not   *)
(* "none" is the state right after run r consumed that line.               *)
(***************************************************************************)
AllKeys == {FieldKeys[i] : i \in 1..NumFields}

LowerHexChars == {HexDigits[i] : i \in 1..Len(HexDigits)}

IsNormalizedHex(v) ==
    /\ Len(v) = 7
    /\ v[1] = "#"
    /\ \A i \in 2..7 : v[i] \in LowerHexChars

\* The verdict of the field's validator on what was typed, the empty line on
\* a field without default included.
InputRejected(f, user_input, existing_themes) ==
    IF user_input = <<>> THEN ~FieldAllowEmpty[f]
    ELSE /\ FieldValidator[f] # "none"
         /\ RunValidator(FieldValidator[f], user_input, existing_themes) # "ok"

\* Run r has just entered, at a contrast-checked property, a value that its
\* validator accepts and that fails WCAG AA against the background.
EnteredFailingContrast(r) ==
    /\ last[r].at = "prompt"
    /\ FieldKeys[last[r].field] \in ContrastChecked
    /\ ~InputRejected(last[r].field, strip(last[r].line), list_available_themes)
    /\ FieldKeys[last[r].field] \in DOMAIN props[r]
    /\ ~meets_wcag_aa(calculate_contrast_ratio(props[r][FieldKeys[last[r].field]],
                                               props[r].background_color))

\* C1: when the value entered for a contrast-checked property fails WCAG AA
\* against the background, the run asks the override question for that
\* property, and the answer "n" there puts the run back at the prompt of the
\* same property: it does not advance and the value does not count as
\* accepted.
C1_DeclinedOverrideReprompts ==
    \A r \in Runs :
        /\ EnteredFailingContrast(r)
              => /\ status[r] = "running"
                 /\ pc[r] = "override"
                 /\ field[r] = last[r].field
        /\ (last[r].at = "override" /\ lower(strip(last[r].line)) = <<"n">>)
              => /\ status[r] = "running"
                 /\ pc[r] = "prompt"
                 /\ field[r] = last[r].field
                 /\ FieldKeys[last[r].field] \notin overridden[r]

\* C2: at the override question only an explicit negative answer sends the
\* run back to the prompt of the property; every other answer, the empty one
\* included, accepts the value as overridden and goes on to the next property
\* (or to the summary after the last one).
C2_OnlyNegativeReprompts ==
    \A r \in Runs :
        /\ EnteredFailingContrast(r) => (status[r] = "running" /\ pc[r] = "override")
        /\ last[r].at = "override"
              => IF lower(strip(last[r].line)) \in {<<"n">>, <<"n", "o">>}
                 THEN pc[r] = "prompt" /\ field[r] = last[r].field
                 ELSE /\ FieldKeys[last[r].field] \in overridden[r]
                      /\ \/ pc[r] = "prompt" /\ field[r] = last[r].field + 1
                         \/ pc[r] = "confirm"

\* C3: a line that the validator of the property rejects (or the empty line
\* at the theme name) is never stored as the value of the property: the error
\* is shown, the run stays alive and is back at the prompt of the same
\* property.
C3_RejectedInputReprompts ==
    \A r \in Runs :
        (/\ last[r].at = "prompt"
         /\ InputRejected(last[r].field, strip(last[r].line), list_available_themes))
            => /\ status[r] = "running"
               /\ raised[r] = "none"
               /\ pc[r] = "prompt"
               /\ field[r] = last[r].field
               /\ FieldKeys[last[r].field] \notin DOMAIN props[r]
               /\ out[r] = IF strip(last[r].line) = <<>> THEN "This field is required."
                           ELSE RunValidator(FieldValidator[last[r].field],
                                             strip(last[r].line), list_available_themes)

\* A font size outside the range was typed at the fifth prompt and the run is
\* at that prompt again.
C3_Witness ==
    \E r \in Runs :
        /\ last[r].at = "prompt"
        /\ last[r].field = 5
        /\ strip(last[r].line) = <<"0">>
        /\ InputRejected(5, strip(last[r].line), list_available_themes)
        /\ pc[r] = "prompt"
        /\ field[r] = 5
        /\ out[r] = "Invalid font size"

\* C4: when the summary is shown, every colour property is "#" followed by
\* six lowercase hexadecimal digits, body_text_size ends with "pt", and every
\* contrast-checked property either reaches 4.5:1 against the background or
\* was accepted by an explicit override.
C4_SummaryInvariants ==
    \A r \in Runs :
        summary[r] # "none"
            => /\ \A key \in ColorValued : IsNormalizedHex(props[r][key])
               /\ endswith(props[r].body_text_size, <<"p", "t">>)
               /\ \A key \in ContrastChecked :
                     \/ key \in overridden[r]
                     \/ meets_wcag_aa(calculate_contrast_ratio(props[r][key],
                                                              props[r].background_color))

\* C5: at "Create theme?" an answer other than the empty line and "y" ends
\* the run with the cancellation message, with no CSS generated and no file
\* written; the empty line or "y" generates the CSS and goes on to save it.
C5_ConfirmDecides ==
    \A r \in Runs :
        last[r].at = "confirm"
            => IF lower(strip(last[r].line)) \in {<<>>, <<"y">>}
               THEN /\ status[r] = "running"
                    /\ pc[r] = "open"
                    /\ css[r] = generate_css_from_properties(props[r])
               ELSE /\ status[r] = "returned"
                    /\ out[r] = "Theme creation cancelled."
                    /\ css[r] = <<>>
                    /\ writes[r] = 0
                    /\ themes = ExistingThemes

\* The operator answered "n" to "Create theme?" and the run returned.
C5_Witness ==
    \E r \in Runs :
        /\ last[r].at = "confirm"
        /\ lower(strip(last[r].line)) = <<"n">>
        /\ status[r] = "returned"
        /\ DOMAIN props[r] = AllKeys

\* C6: a run writes to the themes directory at most once, only after all ten
\* properties are accepted, the summary is shown and the confirmation is
\* given, with the CSS generated completely before the write; and a run that
\* has ended, a failed save included, leaves no theme file with part of the
\* content.
C6_SingleCompleteWrite ==
    \A r \in Runs :
        /\ writes[r] <= 1
        /\ writes[r] = 1
              => /\ DOMAIN props[r] = AllKeys
                 /\ summary[r] # "none"
                 /\ css[r] = generate_css_from_properties(props[r])
        /\ (writes[r] = 1 /\ status[r] # "running")
              => themes[props[r].name] = css[r]

\* C7: a KeyboardInterrupt at a prompt ends the run with the cancellation
\* message and exit status 0, and the run has written no file.
C7_InterruptExitsZero ==
    \A r \in Runs :
        raised[r] = "KeyboardInterrupt"
            => /\ status[r] = "exit0"
               /\ out[r] = "Theme creation cancelled."
               /\ pc[r] \in {"prompt", "override", "confirm"}
               /\ css[r] = <<>>
               /\ writes[r] = 0
               /\ themes = ExistingThemes

\* Ctrl-C at the final confirmation, after all ten properties.
C7_Witness ==
    \E r \in Runs :
        /\ raised[r] = "KeyboardInterrupt"
        /\ pc[r] = "confirm"
        /\ DOMAIN props[r] = AllKeys
        /\ status[r] = "exit0"

\* C8: every error other than KeyboardInterrupt, the IOError of a failed save
\* included, ends the run with a diagnostic and exit status 1; a run never
\* ends in another way than by returning or by one of the two exits.
C8_ErrorExitsOne ==
    \A r \in Runs :
        /\ status[r] \in {"not started", "running", "returned", "exit0", "exit1"}
        /\ raised[r] \notin {"none", "KeyboardInterrupt"}
              => status[r] = "exit1" /\ out[r] = "Error"
        /\ fault[r] # "none"
              => raised[r] = "IOError" /\ status[r] = "exit1" /\ out[r] = "Error"
        /\ status[r] \in {"returned", "running", "not started"} => raised[r] = "none"

\* The write of the theme file failed half way.
C8_Witness ==
    \E r \in Runs :
        /\ fault[r] = "OSError"
        /\ raised[r] = "IOError"
        /\ pc[r] = "write"
        /\ status[r] = "exit1"

AsciiNameChars ==
    {"-", "_"} \cup Range(UpperLetters) \cup Range(LowerLetters) \cup Range(Digits)

C11_ExactMatchOnly ==
    (call.fn = "validate_theme_name" /\ call.done)
        => /\ call.arg \in call.listing => call.ret = "Theme already exists"
           /\ (/\ call.arg \notin call.listing
               /\ call.arg # <<>>
               /\ \A i \in 1..Len(call.arg) : call.arg[i] \in AsciiNameChars)
                 => call.ret = "ok"

\* "D" was validated while "d" is listed, and it was accepted.
C11_Witness ==
    /\ call.fn = "validate_theme_name"
    /\ call.done
    /\ call.arg = <<"D">>
    /\ <<"d">> \in call.listing
    /\ call.ret = "ok"

\* C12: a name with a path separator or a traversal sequence ("/", "\", "..")
\* is rejected with an error of its own, one that names path separators or
\* path traversal, not with the message about the allowed characters.
C12_PathSeparatorsExplicit ==
    (/\ call.fn = "validate_theme_name"
     /\ call.done
     /\ \/ \E i \in 1..Len(call.arg) : call.arg[i] \in {"/", "\\"}
        \/ \E i \in 1..(Len(call.arg) - 1) : call.arg[i] = "." /\ call.arg[i + 1] = ".")
        => call.ret \notin
              {"ok", "Theme name can only contain letters, numbers, hyphens, and underscores"}

\* C13: suggest_accessible_color returns a colour that reaches the target
\* against the background, or exactly "#000000" or "#ffffff"; when the
\* foreground already reaches the target the result is the foreground as six
\* digit hex.
C13_SuggestionMeetsTarget ==
    (call.fn = "suggest_accessible_color" /\ call.done)
        => /\ call.ret.raised = "none"
           /\ \/ call.ret.value \in {<<"#", "0", "0", "0", "0", "0", "0">>,
                                     <<"#", "f", "f", "f", "f", "f", "f">>}
              \/ RatioAtLeast(calculate_contrast_ratio(call.ret.value, call.arg[2]),
                              call.arg[3])
           /\ RatioAtLeast(calculate_contrast_ratio(call.arg[1], call.arg[2]), call.arg[3])
                 => call.ret.value = rgb_to_hex(parse_color(call.arg[1]).rgb)

\* C14: with the default target the colour that suggest_accessible_color
\* returns, the black or white fallback included, has a contrast of at least
\* 4.5:1 against the background.
C14_SuggestionMeetsAA ==
    (call.fn = "suggest_accessible_color" /\ call.done /\ call.arg[3] = 45)
        => /\ call.ret.raised = "none"
           /\ meets_wcag_aa(calculate_contrast_ratio(call.ret.value, call.arg[2]))

\* C15: display_summary reports that all contrast ratios meet WCAG AA exactly
\* when the text, H1, H2-H6 and accent colours each have a contrast of at
\* least 4.5:1 against the background, and the warning otherwise.
C15_SummaryVerdict ==
    (call.fn = "display_summary" /\ call.done)
        => IF /\ RatioAtLeast(calculate_contrast_ratio(call.arg.text_color,
                                                       call.arg.background_color), 45)
              /\ RatioAtLeast(calculate_contrast_ratio(call.arg.h1_color,
                                                       call.arg.background_color), 45)
              /\ RatioAtLeast(calculate_contrast_ratio(call.arg.h2_h6_color,
                                                       call.arg.background_color), 45)
              /\ RatioAtLeast(calculate_contrast_ratio(call.arg.accent_color,
                                                       call.arg.background_color), 45)
           THEN call.ret = "All contrast ratios meet WCAG AA standards"
           ELSE call.ret = "Some contrast ratios are below WCAG AA"

\* Only the accent colour, the last one looked at, is below 4.5:1, and the
\* summary shows the warning.
C15_Witness ==
    /\ call.fn = "display_summary"
    /\ call.done
    /\ call.arg.background_color = <<"#", "f", "f", "f", "f", "f", "f">>
    /\ call.arg.text_color = <<"#", "0", "0", "0", "0", "0", "0">>
    /\ call.arg.h1_color = <<"#", "7", "6", "7", "6", "7", "6">>
    /\ call.arg.h2_h6_color = <<"#", "0", "0", "0", "0", "0", "0">>
    /\ call.arg.accent_color = <<"#", "7", "7", "7", "7", "7", "7">>
    /\ call.ret = "Some contrast ratios are below WCAG AA"

\* The grammar of colour literals after trimming and lowercasing: "#" with
\* three or six digits of 0-9a-f, a keyword of the table, or a complete HSL
\* triple with nothing after the closing parenthesis.
GrammarHex(s) ==
    /\ Len(s) \in {4, 7}
    /\ s[1] = "#"
    /\ \A i \in 2..Len(s) : s[i] \in LowerHexChars

GrammarHsl(s) ==
    /\ startswith(s, <<"h", "s", "l", "(">>)
    /\ s[Len(s)] = ")"
    /\ Cardinality({i \in 1..Len(s) : s[i] = ")"}) = 1
    /\ _parse_hsl(s).ok

InGrammar(s) == GrammarHex(s) \/ GrammarHsl(s) \/ \E e \in CSS_NAMED_COLORS : e[1] = s

\* C16: parse_color accepts a literal exactly when, trimmed and lowercased,
\* it belongs to the grammar (hex of three or six digits, keyword, complete
\* HSL triple in range); every other literal raises ValueError; and an
\* accepted literal yields three channels in 0..255.
C16_ParseGrammar ==
    (call.fn = "parse_color" /\ call.done)
        => /\ call.ret.ok <=> InGrammar(lower(strip(call.arg)))
           /\ call.ret.ok => \A i \in 1..3 : call.ret.rgb[i] \in 0..255

\* C17: for channels in 0..255, rgb_to_hex gives "#" and six zero-padded
\* lowercase hex digits that parse_color maps back to the triple; a valid
\* "#rgb" literal parses to the triple of the "#rrggbb" literal with every
\* digit doubled; and the normal form rgb_to_hex(parse_color(h)) of a valid
\* hex literal is its own normal form.
C17_HexRoundTrip ==
    /\ (call.fn = "rgb_to_hex" /\ call.done)
          => /\ IsNormalizedHex(call.ret)
             /\ parse_color(call.ret) = Rgb(call.arg[1], call.arg[2], call.arg[3])
    /\ (call.fn = "parse_color" /\ call.done /\ GrammarHex(lower(strip(call.arg))))
          => /\ call.ret.ok
             /\ parse_color(rgb_to_hex(call.ret.rgb)) = call.ret
             /\ rgb_to_hex(parse_color(rgb_to_hex(call.ret.rgb)).rgb)
                   = rgb_to_hex(call.ret.rgb)
    /\ (call.fn = "parse_color" /\ call.done /\ GrammarHex(call.arg) /\ Len(call.arg) = 4)
          => call.ret = parse_color(<<"#", call.arg[2], call.arg[2], call.arg[3],
                                     call.arg[3], call.arg[4], call.arg[4]>>)

\* The triple (10, 0, 15), one with channels below 16, was formatted.
C17_Witness ==
    /\ call.fn = "rgb_to_hex"
    /\ call.done
    /\ call.arg = <<10, 0, 15>>
    /\ call.ret = <<"#", "0", "a", "0", "0", "0", "f">>

\* C18: validate_font_size accepts a size exactly when, trimmed and without one
\* trailing "pt", it is a number n with 0 < n <= 100 (not-a-number and the
\* infinities are no such number), and the size the wizard stores for an
\* accepted input ends with one "pt".
SizeInRange(v) ==
    /\ v.kind = "num"
    /\ ~v.neg
    /\ v.int > 0 \/ v.frac
    /\ v.int < 100 \/ (v.int = 100 /\ ~v.frac)

C18_FontSizeRange ==
    (call.fn = "validate_font_size" /\ call.done) =>
        /\ call.ret.verdict = "ok" <=> SizeInRange(float(WithoutPt(strip(call.arg))))
        /\ call.ret.verdict = "ok" =>
              /\ endswith(call.ret.stored, <<"p", "t">>)
              /\ ~endswith(call.ret.stored, <<"p", "t", "p", "t">>)

\* C19: the CSS generated for a complete property set has a rule with the
\* class selector ".document-section-header", the one that matches the
\* <h1 class="document-section-header"> of the merge step.
C19_SectionHeaderClassRule ==
    \A r \in Runs :
        css[r] # <<>> => ".document-section-header {\n" \in Range(css[r])

\* The declarations of the first rule of a stylesheet with the given opening
\* line, up to the line that closes it.
RuleOpens(sheet, opening) == {i \in DOMAIN sheet : sheet[i] = opening}

RuleCloses(sheet, from) == {j \in DOMAIN sheet : j > from /\ sheet[j] = "}\n"}

RuleBody(sheet, opening) ==
    IF RuleOpens(sheet, opening) = {} THEN {}
    ELSE LET i == CHOOSE k \in RuleOpens(sheet, opening) :
                      \A m \in RuleOpens(sheet, opening) : k <= m
             j == CHOOSE k \in RuleCloses(sheet, i) :
                      \A m \in RuleCloses(sheet, i) : k <= m
         IN  {sheet[k] : k \in (i + 1)..(j - 1)}

\* C20: the generated CSS has a ".page-break" rule with both
\* "page-break-after: always" and "break-after: page", and its other
\* declarations leave no footprint: no border, and margin, padding and height
\* are zero where they are set.
C20_PageBreakRule ==
    \A r \in Runs :
        css[r] # <<>> =>
            /\ RuleOpens(css[r], ".page-break {\n") # {}
            /\ {"    page-break-after: always;\n", "    break-after: page;\n"}
                    \subseteq RuleBody(css[r], ".page-break {\n")
            /\ RuleBody(css[r], ".page-break {\n")
                    \subseteq {"    page-break-after: always;\n",
                               "    break-after: page;\n", "    height: 0;\n",
                               "    margin: 0;\n", "    padding: 0;\n",
                               "    border: none;\n"}

\* C21: main() called with --create-theme and no input file launches
\* run_theme_wizard exactly once and calls none of convert_md_to_pdf,
\* convert_batch and convert_merge.
C21_CreateThemeLaunchesWizard ==
    (/\ call.fn = "main"
     /\ call.done
     /\ <<"-", "-", "c", "r", "e", "a", "t", "e", "-", "t", "h", "e", "m", "e">> \in Range(call.arg.argv)
     /\ \A i \in DOMAIN call.arg.argv : startswith(call.arg.argv[i], <<"-">>)) =>
        /\ Cardinality({i \in DOMAIN call.ret.calls :
                            call.ret.calls[i] = "run_theme_wizard"}) = 1
        /\ Range(call.ret.calls) \cap
               {"convert_md_to_pdf", "convert_batch", "convert_merge"} = {}

\* C22: when the loop of convert_batch has ended, every input file was
\* attempted once and in input order, whatever errors the files before it met;
\* the converted files are exactly those whose PDF generation returned without
\* error, the failed files are the others, and the two counts add up to the
\* number of input files.
Names(files) == [i \in DOMAIN files |-> files[i].name]

Processed(input_files) ==
    LET ok == SelectSeq(input_files, LAMBDA f : f.error = "ok")
    IN  [i \in DOMAIN ok |-> [filename |-> ok[i].name, html_body |-> ok[i].html_body]]

AdjustedAsClaimed(fn, c, p, d) ==
    /\ d \in 0..255
    /\ fn = "suggest_darker" => d = (c * (100 - p)) \div 100 /\ d <= c
    /\ fn = "suggest_lighter" => d = (c * 100 + (255 - c) * p) \div 100 /\ d >= c

C24_AdjustmentFormula ==
    (call.fn \in {"suggest_darker", "suggest_lighter"} /\ call.done) =>
        \A i \in 1..3 :
            AdjustedAsClaimed(call.fn, parse_color(call.arg.color).rgb[i],
                              call.arg.percentage, parse_color(call.ret).rgb[i])

\* C25: for H in 0..360 and S, L in 0..100, parse_color("hsl(H, S%, L%)") is
\* the triple of the sector algorithm with each channel rounded to the nearest
\* integer: round(255 * (c' + m)) for the chroma c = (1 - |2l - 1|) s,
\* x = c (1 - |(h / 60) mod 2 - 1|) and m = l - c / 2.
Decimal(n) ==
    IF n < 10 THEN <<Digits[n + 1]>>
    ELSE IF n < 100 THEN <<Digits[(n \div 10) + 1], Digits[(n % 10) + 1]>>
    ELSE <<Digits[(n \div 100) + 1], Digits[((n \div 10) % 10) + 1], Digits[(n % 10) + 1]>>

HslLiteral(h, s, l) ==
    <<"h", "s", "l", "(">> \o Decimal(h) \o <<",", " ">> \o Decimal(s)
        \o <<"%", ",", " ">> \o Decimal(l) \o <<"%", ")">>

\* round(255 * n / d), halves upwards.
Round255(n, d) == (2 * 255 * n + d) \div (2 * d)

\* In units of 1/600000: the chroma, x and m of the triple (h, s, l).
HslRounded(h, s, l) ==
    LET c == 60 * (100 - (IF 2 * l >= 100 THEN 2 * l - 100 ELSE 100 - 2 * l)) * s
        x == (c \div 60) * (60 - (IF (h % 120) >= 60 THEN (h % 120) - 60
                                  ELSE 60 - (h % 120)))
        m == 6000 * l - (c \div 2)
        C == Round255(c + m, 600000)
        X == Round255(x + m, 600000)
        O == Round255(m, 600000)
    IN  IF h < 60 THEN <<C, X, O>>
        ELSE IF h < 120 THEN <<X, C, O>>
        ELSE IF h < 180 THEN <<O, C, X>>
        ELSE IF h < 240 THEN <<O, X, C>>
        ELSE IF h < 300 THEN <<X, O, C>>
        ELSE <<C, O, X>>

C25_HslRounded ==
    \A h \in {0, 60, 120, 210, 240, 300, 360} :
        \A sl \in {<<0, 0>>, <<0, 1>>, <<0, 50>>, <<100, 50>>, <<50, 20>>,
                   <<100, 100>>, <<100, 25>>} :
            (/\ call.fn = "parse_color"
             /\ call.done
             /\ call.arg = HslLiteral(h, sl[1], sl[2])) =>
                /\ call.ret.ok
                /\ call.ret.rgb = HslRounded(h, sl[1], sl[2])

\* C26: when the foreground does not reach the target,
\* suggest_accessible_color returns the result of a bounded linear search:
\* darker candidates on a background of luminance above 0.5, lighter ones
\* otherwise, for the percentages start, start + step, ... below a ceiling
\* (0 < start, step fixed, ceiling < 100), the first candidate that reaches
\* the target, and black respectively white when none does.
RECURSIVE SearchFrom(_, _, _, _, _, _)
SearchFrom(foreground, background, target, percentage, ceiling, step) ==
    IF percentage >= ceiling
    THEN IF get_relative_luminance(parse_color(background).rgb) > 5000000
         THEN <<"#", "0", "0", "0", "0", "0", "0">>
         ELSE <<"#", "f", "f", "f", "f", "f", "f">>
    ELSE IF RatioAtLeast(
                calculate_contrast_ratio(
                    IF get_relative_luminance(parse_color(background).rgb) > 5000000
                    THEN suggest_darker(foreground, percentage)
                    ELSE suggest_lighter(foreground, percentage),
                    background),
                target)
    THEN IF get_relative_luminance(parse_color(background).rgb) > 5000000
         THEN suggest_darker(foreground, percentage)
         ELSE suggest_lighter(foreground, percentage)
    ELSE SearchFrom(foreground, background, target, percentage + step, ceiling, step)

C26_BoundedLinearSearch ==
    (/\ call.fn = "suggest_accessible_color"
     /\ call.done
     /\ ~RatioAtLeast(calculate_contrast_ratio(call.arg[1], call.arg[2]), call.arg[3])) =>
        /\ call.ret.raised = "none"
        /\ \E start \in 1..10, step \in 1..10, ceiling \in 90..99 :
               call.ret.value = SearchFrom(call.arg[1], call.arg[2], call.arg[3],
                                           start, ceiling, step)

\* C27: prompt_theme_properties collects the ten properties in the order
\* of FieldKeys.  In every step of a run: the field being prompted stays or
\* moves on to the next one, only the fields up to the current one have a
\* value, a field that was accepted keeps its value, a contrast-checked
\* value is accepted without an override exactly when it passes against the
\* stored background (which, being an accepted field, never changes again),
\* and when the function returns all ten keys are set.
AcceptedFields(r) == {FieldKeys[i] : i \in 1..(field[r] - 1)}

PassesOnStored(d, key) ==
    meets_wcag_aa(calculate_contrast_ratio(d[key], d.background_color))

C27_FixedOrderStep(r) ==
    /\ field'[r] \in {field[r], field[r] + 1}
    /\ DOMAIN props'[r] \subseteq {FieldKeys[i] : i \in 1..field'[r]}
    /\ AcceptedFields(r) \subseteq DOMAIN props[r]
    /\ \A key \in AcceptedFields(r) :
          key \in DOMAIN props'[r] /\ props'[r][key] = props[r][key]
    /\ (pc[r] = "prompt" /\ FieldKeys[field[r]] \in ContrastChecked
            /\ (field'[r] # field[r] \/ pc'[r] = "confirm"))
          => PassesOnStored(props'[r], FieldKeys[field[r]])
    /\ (pc[r] = "prompt" /\ (pc'[r] = "override" \/ raised'[r] = "AttributeError"))
          => ~PassesOnStored(props'[r], FieldKeys[field[r]])
    /\ (pc[r] # "confirm" /\ pc'[r] = "confirm")
          => DOMAIN props'[r] = Range(FieldKeys)

C27_FixedOrder == [][C27_FixedOrderStep(1)]_vars

\* All ten properties were collected on a background other than the default.
C27_Witness ==
    /\ pc[1] = "confirm"
    /\ DOMAIN props[1] = Range(FieldKeys)
    /\ props[1].background_color = <<"#", "0", "0", "0", "0", "0", "0">>
    /\ props[1].text_color = <<"#", "c", "c", "c", "c", "c", "c">>

\* C28: once the name is accepted, an operator who answers every prompt
\* with an empty line gets every default accepted.  Step by step: when
\* the properties collected so far are the defaults and the operator answers
\* the prompt of the current field with an empty line, the run goes on (it
\* does not end with an error), the field is accepted with its default, and
\* the next prompt is the one of the next field or the summary; an empty
\* answer to the override question does not lead back to the same prompt.
DefaultsSoFar(r) ==
    \A i \in 2..(field[r] - 1) :
        FieldKeys[i] \in DOMAIN props[r] /\ props[r][FieldKeys[i]] = FieldDefault[i]

C28_AllDefaultsStep(r) ==
    /\ (/\ pc[r] = "prompt"
        /\ field[r] >= 2
        /\ DefaultsSoFar(r)
        /\ last'[r] = [at |-> "prompt", field |-> field[r], line |-> <<>>])
          => /\ status'[r] = "running"
             /\ props'[r][FieldKeys[field[r]]] = FieldDefault[field[r]]
             /\ \/ pc'[r] = "prompt" /\ field'[r] = field[r] + 1
                \/ pc'[r] = "confirm" /\ field[r] = NumFields
    /\ (/\ pc[r] = "override"
        /\ DefaultsSoFar(r)
        /\ last'[r] = [at |-> "override", field |-> field[r], line |-> <<>>])
          => ~(pc'[r] = "prompt" /\ field'[r] = field[r])

C28_AllDefaultsReachSummary == [][C28_AllDefaultsStep(1)]_vars

\* C29: a run whose save_theme succeeded (the file was opened and the whole
\* text written without a storage fault) ends as a success: the saved path
\* is printed and run_theme_wizard returns normally, wherever the current
\* working directory is.
SaveSucceeded(r) ==
    /\ writes[r] = 1
    /\ fault[r] = "none"
    /\ css[r] # <<>>
    /\ themes[props[r].name] = css[r]

C29_SavedRunSucceeds ==
    (status[1] # "running" /\ SaveSucceeded(1))
        => status[1] = "returned" /\ out[1] = "CSS file created"

\* C30: for n >= 1 documents _merge_html_bodies emits one section header
\* per document, in input order, each made of the opening tag, the
\* HTML-escaped filename and the closing tag and followed at once by the
\* body of its document; with auto_break a page-break element stands between
\* every two consecutive documents, n - 1 in all and none after the last
\* body; without auto_break there is none.
EntityOf(c) ==
    CASE c = "&" -> <<"&", "a", "m", "p", ";">>
      [] c = "<" -> <<"&", "l", "t", ";">>
      [] c = ">" -> <<"&", "g", "t", ";">>
      [] c = "\"" -> <<"&", "q", "u", "o", "t", ";">>
      [] c = "'" -> <<"&", "#", "x", "2", "7", ";">>
      [] OTHER -> <<c>>

RECURSIVE HtmlEscaped(_, _)
HtmlEscaped(filename, upto) ==
    IF upto = 0 THEN <<>>
    ELSE HtmlEscaped(filename, upto - 1) \o EntityOf(filename[upto])

HeaderOpen == "<h1 class=\"document-section-header\">"

PageBreak == "<div class=\"page-break\"></div>\n"

Occurrences(text, token) == {i \in DOMAIN text : text[i] = token}

Nth(S, k) == CHOOSE i \in S : Cardinality({j \in S : j < i}) = k - 1

SectionOf(document) ==
    HtmlEscaped(document.filename, Len(document.filename))
        \o <<"</h1>\n", "\n">> \o document.html_body

\* The position of the last token of the k-th section.
SectionEnd(text, documents, k) ==
    Nth(Occurrences(text, HeaderOpen), k) + Len(SectionOf(documents[k]))

MergedAsClaimed(text, documents, auto_break) ==
    /\ Cardinality(Occurrences(text, HeaderOpen)) = Len(documents)
    /\ Nth(Occurrences(text, HeaderOpen), 1) = 1
    /\ \A k \in DOMAIN documents :
          /\ SectionEnd(text, documents, k) <= Len(text)
          /\ SubSeq(text, Nth(Occurrences(text, HeaderOpen), k) + 1,
                    SectionEnd(text, documents, k)) = SectionOf(documents[k])
    /\ Cardinality(Occurrences(text, PageBreak))
          = IF auto_break THEN Len(documents) - 1 ELSE 0
    /\ \A k \in 1..(Len(documents) - 1) :
          IF auto_break
          THEN SubSeq(text, SectionEnd(text, documents, k) + 1,
                      SectionEnd(text, documents, k) + 4)
                  = <<"\n", PageBreak, "\n", HeaderOpen>>
          ELSE SubSeq(text, SectionEnd(text, documents, k) + 1,
                      SectionEnd(text, documents, k) + 2)
                  = <<"\n", HeaderOpen>>
    /\ SectionEnd(text, documents, Len(documents)) = Len(text)

C30_MergedSections ==
    (call.fn = "_merge_html_bodies" /\ call.done /\ call.arg.html_bodies # <<>>)
        => MergedAsClaimed(call.ret, call.arg.html_bodies, call.arg.auto_break)

\* Three documents merged with page breaks, a filename that needs escaping
\* among them.
C30_Witness ==
    /\ call.fn = "_merge_html_bodies"
    /\ call.done
    /\ Len(call.arg.html_bodies) = 3
    /\ call.arg.auto_break
    /\ call.arg.html_bodies[2].filename = <<"<", "b", ">", "&">>
    /\ Cardinality(Occurrences(call.ret, PageBreak)) = 2

====
